---- MODULE Spec2Model ----
(***************************************************************************)
(* The composite Walk service (src/composite-service) in front of the      *)
(* atomic Walk service, and the review validator of the PawPal composite   *)
(* (src/pawpal-composite-service).                                         *)
(*                                                                         *)
(* One request of the composite API is followed step by step: each step    *)
(* runs the handler from one await to the next, i.e. it issues one remote  *)
(* call and consumes its answer.  Between two steps of the followed        *)
(* request, plain single-call requests of other clients may run (the       *)
(* Other... actions).  Inside a ThreadPoolExecutor block the handler       *)
(* blocks the event loop, so only the workers of that block step.          *)
(***************************************************************************)
EXTENDS Integers, Sequences, FiniteSets, TLC

\* ---------------------------------------------------------------- bounds
MaxWalks == 2
MaxAssignments == 1
MaxEvents == 1
MaxUsers == 2

WalkIds == 1..MaxWalks
AssignmentIds == 1..MaxAssignments
EventIds == 1..MaxEvents
UserIds == 1..MaxUsers

\* A status outside an operation's contract (5xx, timeouts surfaced as errors).
UnexpectedStatus == {500}

VARIABLES
    walks,        \* atomic service: the ids of the stored walks
    assignments,  \* atomic service: assignment id -> walk_id of the stored assignments
    events,       \* atomic service: event id -> walk_id of the stored events
    users,        \* user service: the ids of the stored users
    users_db,     \* users: the in-memory store of user-service, id -> UserRead
    atomic_client, \* composite-service: the global client, None until lifespan starts
    req,          \* the followed request: handler, position, locals, response
    futures,      \* the futures of the followed request's ThreadPoolExecutor block
    issued,       \* the remote calls the followed request has issued, in order
    disturbed     \* whether another client wrote since the followed request began

vars == <<walks, assignments, events, users, users_db, atomic_client, req, futures,
          issued, disturbed>>

\* ------------------------------------------------------------- utilities
RECURSIVE SortedSeq(_)
SortedSeq(S) ==
    IF S = {} THEN <<>>
    ELSE LET m == CHOOSE x \in S : \A y \in S : x <= y
         IN  <<m>> \o SortedSeq(S \ {m})

Range(s) == {s[i] : i \in DOMAIN s}

Put(f, k, v) == [x \in DOMAIN f \cup {k} |-> IF x = k THEN v ELSE f[x]]

Drop(f, k) == [x \in DOMAIN f \ {k} |-> f[x]]

NoEntities == [x \in {} |-> 0]

Call(name, id) == [call |-> name, id |-> id]

Issue(name, id) == Append(issued, Call(name, id))

First(name, id) == <<Call(name, id)>>

\* How many times the followed request has issued the call.
Issued(name, id) == Cardinality({i \in DOMAIN issued : issued[i] = Call(name, id)})

\* ------------------------------------------- the atomic service's contract
\* Lookup answers 200 with the entity or 404.
RemoteGetWalk(w) == IF w \in walks THEN 200 ELSE 404

RemoteGetAssignment(a) == IF a \in DOMAIN assignments THEN 200 ELSE 404

RemoteGetEvent(e) == IF e \in DOMAIN events THEN 200 ELSE 404

\* Faulty variant of RemoteListAssignments: the walk_id filter is not applied.
RemoteListAssignments_unfiltered(w) == SortedSeq(DOMAIN assignments)

\* Listing filtered by walk_id answers 200 with the matching entities.
RemoteListAssignments(w) == SortedSeq({a \in DOMAIN assignments : assignments[a] = w})

RemoteListEvents(w) == SortedSeq({e \in DOMAIN events : events[e] = w})

\* Delete answers 204 on success and 404 when the entity is absent.
RemoteDeleteWalk(w) == IF w \in walks THEN 204 ELSE 404

RemoteDeleteAssignment(a) == IF a \in DOMAIN assignments THEN 204 ELSE 404

RemoteDeleteEvent(e) == IF e \in DOMAIN events THEN 204 ELSE 404

\* Create answers 201 with the entity; an id that is already stored is refused.
RemoteCreateWalk(w) == IF w \in walks THEN 500 ELSE 201

RemoteCreateAssignment(a) == IF a \in DOMAIN assignments THEN 500 ELSE 201

RemoteCreateEvent(e) == IF e \in DOMAIN events THEN 500 ELSE 201

\* What the service may answer to a call whose contract answer is st.
Answers(st) == {st} \cup UnexpectedStatus

\* --------------------------------------------------- AtomicServiceClient
\* create_*: the entity on 201, otherwise HTTPException(status).
ClientCreate(st) == IF st = 201 THEN "entity" ELSE "raise"

\* Faulty variant of ClientGet: every status but 200 gives None.
ClientGet_lenient(st) == IF st = 200 THEN "entity" ELSE "none"

\* get_*: the entity on 200, None on 404, otherwise HTTPException(status).
ClientGet(st) == IF st = 200 THEN "entity" ELSE IF st = 404 THEN "none" ELSE "raise"

\* Faulty variant of ClientUpdate: a 404 gives None instead of an error.
ClientUpdate_absent(st) == IF st = 200 THEN "entity" ELSE IF st = 404 THEN "none" ELSE "raise"

\* update_*: the entity on 200, otherwise HTTPException(status).
ClientUpdate(st) == IF st = 200 THEN "entity" ELSE "raise"

\* list_*: the entities on 200, otherwise HTTPException(status).
ClientList(st) == IF st = 200 THEN "entities" ELSE "raise"

\* Faulty variant of ClientDelete: every status but 204 is reported as False.
ClientDelete_swallowing(st) == IF st = 204 THEN "true" ELSE "false"

\* Faulty variant of ClientDelete: only 204 is not an error.
ClientDelete_strict(st) == IF st = 204 THEN "true" ELSE "raise"

\* delete_*: True on 204, False on 404, otherwise HTTPException(status).
ClientDelete(st) == IF st = 204 THEN "true" ELSE IF st = 404 THEN "false" ELSE "raise"

\* ------------------------------------------------------------- responses
NoBody ==
    [kind |-> "none", id |-> 0, walk_id |-> 0, assignments |-> <<>>, events |-> <<>>,
     assignment_count |-> 0, event_count |-> 0, deleted_count |-> 0,
     dogs |-> <<>>, reviews |-> <<>>, as_owner |-> <<>>, as_walker |-> <<>>,
     dog_count |-> 0, review_count |-> 0]

Entity(kind, id, w) == [NoBody EXCEPT !.kind = kind, !.id = id, !.walk_id = w]

\* A user id as the callers write it: the zero-padded UUID whose last group is
\* the number n, the decimal digits of n, or any other text.
NoUserId == [form |-> "none", n |-> 0]

UserIdStrings ==
    {[form |-> f, n |-> n] : f \in {"padded", "digits"}, n \in UserIds}
        \cup {[form |-> "other", n |-> 0]}

Idle ==
    [op |-> "none", pc |-> "idle", walk_id |-> 0, id |-> 0, force |-> FALSE,
     response |-> 0, text |-> "", exc_text |-> "", wellformed |-> TRUE,
     payload |-> <<>>, sent |-> <<>>, stored |-> <<>>, returned |-> <<>>,
     user_id |-> NoUserId, owner_id |-> NoUserId,
     walker_id |-> NoUserId, user |-> "unset", dogs |-> <<>>, reviews |-> <<>>,
     as_owner |-> <<>>, as_walker |-> <<>>,
     walk |-> "unset", existed |-> FALSE, has_deps |-> FALSE, dep_types |-> <<>>,
     assignments |-> <<>>, events |-> <<>>, deleted_count |-> 0,
     join |-> "none", exc |-> 0,
     status |-> 0, detail |-> <<>>, body |-> NoBody]

\* A request enters its handler (Depends(get_client) has passed).
Enter(op, w, id, force) ==
    [Idle EXCEPT !.op = op, !.pc = "run", !.walk_id = w, !.id = id, !.force = force]

\* The handler returns or raises: the response goes to the caller.
Respond(r, status, detail, body) ==
    [r EXCEPT !.pc = "done", !.status = status, !.detail = detail, !.body = body]

\* HTTPException(status_code=response.status_code, ...) raised by the client.
Upstream(r, st) == Respond(r, st, <<"upstream">>, NoBody)

\* No request is being followed: the next one may enter its handler.
Free == req.pc = "idle"

\* httpx.AsyncClient.is_closed of the client atomic_client refers to: a request
\* sent through a closed client raises RuntimeError and reaches no service.
is_closed == atomic_client = "closed"

\* Faulty variant of get_client: the handler runs whatever atomic_client is.
get_client_unguarded == Free

\* Depends(get_client): the handler is entered with the client when
\* atomic_client is not None.
get_client == Free /\ atomic_client # "None"

\* Depends(get_client) with atomic_client None: HTTPException(503) before the
\* handler of the endpoint is entered.
get_client_raises(op) ==
    /\ Free
    /\ atomic_client = "None"
    /\ req' = Respond([Idle EXCEPT !.op = op], 503, <<"Service not initialized">>, NoBody)
    /\ issued' = <<>>
    /\ futures' = <<>>
    /\ disturbed' = FALSE
    /\ UNCHANGED <<users_db, atomic_client, users, walks, assignments, events>>

\* lifespan, up to its yield: the client is constructed.
lifespan ==
    /\ atomic_client = "None"
    /\ atomic_client' = "client"
    /\ UNCHANGED <<users_db, users, walks, assignments, events, req, futures, issued,
                   disturbed>>

\* Faulty variant of lifespan_shutdown: the handle is cleared after the close.
lifespan_shutdown_resets ==
    /\ Free
    /\ atomic_client = "client"
    /\ atomic_client' = "None"
    /\ UNCHANGED <<users_db, users, walks, assignments, events, req, futures, issued,
                   disturbed>>

\* lifespan, after its yield: await atomic_client.close(). The server has
\* finished the requests in flight; atomic_client keeps referring to the
\* client, which is now closed.
lifespan_shutdown ==
    /\ Free
    /\ atomic_client = "client"
    /\ atomic_client' = "closed"
    /\ UNCHANGED <<users_db, users, walks, assignments, events, req, futures, issued,
                   disturbed>>

\* Depends(get_client) after the close: get_client returns the closed client,
\* and the first call of the handler (every endpoint starts with one) raises
\* RuntimeError in the client, which the framework answers with 500.
get_client_closed(op) ==
    /\ get_client
    /\ is_closed
    /\ req' = Respond([Idle EXCEPT !.op = op], 500, <<"client has been closed">>, NoBody)
    /\ issued' = <<>>
    /\ futures' = <<>>
    /\ disturbed' = FALSE
    /\ UNCHANGED <<users_db, atomic_client, users, walks, assignments, events>>

Init ==
    /\ walks = {}
    /\ assignments = NoEntities
    /\ events = NoEntities
    /\ users = {}
    /\ users_db = NoEntities
    /\ atomic_client = "client"
    /\ req = Idle
    /\ futures = <<>>
    /\ issued = <<>>
    /\ disturbed = FALSE

\* ------------------------------------------------------ delegated endpoints
\* POST /walks
create_walk(w) ==
    /\ get_client
    /\ ~is_closed
    /\ \E st \in Answers(RemoteCreateWalk(w)) :
          /\ req' = IF ClientCreate(st) = "entity"
                    THEN Respond(Enter("create_walk", w, 0, FALSE), 201, <<>>, Entity("walk", w, w))
                    ELSE Upstream(Enter("create_walk", w, 0, FALSE), st)
          /\ walks' = IF st = 201 THEN walks \cup {w} ELSE walks
    /\ issued' = First("create_walk", w)
    /\ disturbed' = FALSE
    /\ futures' = <<>>
    /\ UNCHANGED <<users_db, atomic_client, users, assignments, events>>

\* DELETE /walks/{walk_id}
delete_walk(w) ==
    /\ get_client
    /\ ~is_closed
    /\ \E st \in Answers(RemoteDeleteWalk(w)) :
          /\ req' = CASE ClientDelete(st) = "true" ->
                           Respond(Enter("delete_walk", w, 0, FALSE), 204, <<>>, NoBody)
                      [] ClientDelete(st) = "false" ->
                           Respond(Enter("delete_walk", w, 0, FALSE), 404, <<"not_found", "walk">>, NoBody)
                      [] OTHER -> Upstream(Enter("delete_walk", w, 0, FALSE), st)
          /\ walks' = IF st = 204 THEN walks \ {w} ELSE walks
    /\ issued' = First("delete_walk", w)
    /\ disturbed' = FALSE
    /\ futures' = <<>>
    /\ UNCHANGED <<users_db, atomic_client, users, assignments, events>>

\* GET /walks/{walk_id}
get_walk(w) ==
    /\ get_client
    /\ ~is_closed
    /\ \E st \in Answers(RemoteGetWalk(w)) :
          req' = CASE ClientGet(st) = "entity" ->
                        Respond(Enter("get_walk", w, 0, FALSE), 200, <<>>, Entity("walk", w, w))
                   [] ClientGet(st) = "none" ->
                        Respond(Enter("get_walk", w, 0, FALSE), 404, <<"not_found", "walk">>, NoBody)
                   [] OTHER -> Upstream(Enter("get_walk", w, 0, FALSE), st)
    /\ issued' = First("get_walk", w)
    /\ disturbed' = FALSE
    /\ futures' = <<>>
    /\ UNCHANGED <<users_db, atomic_client, users, walks, assignments, events>>

\* The response of GET /assignments/{assignment_id} to the answer st of the service.
get_assignment_response(r, a, st) ==
    CASE ClientGet(st) = "entity" -> Respond(r, 200, <<>>, Entity("assignment", a, assignments[a]))
      [] ClientGet(st) = "none" -> Respond(r, 404, <<"not_found", "assignment">>, NoBody)
      [] OTHER -> Upstream(r, st)

\* GET /assignments/{assignment_id}
get_assignment(a) ==
    /\ get_client
    /\ ~is_closed
    /\ \E st \in Answers(RemoteGetAssignment(a)) :
          req' = get_assignment_response(Enter("get_assignment", 0, a, FALSE), a, st)
    /\ issued' = First("get_assignment", a)
    /\ disturbed' = FALSE
    /\ futures' = <<>>
    /\ UNCHANGED <<users_db, atomic_client, users, walks, assignments, events>>

\* The response of GET /events/{event_id} to the answer st of the service.
get_event_response(r, e, st) ==
    CASE ClientGet(st) = "entity" -> Respond(r, 200, <<>>, Entity("event", e, events[e]))
      [] ClientGet(st) = "none" -> Respond(r, 404, <<"not_found", "event">>, NoBody)
      [] OTHER -> Upstream(r, st)

\* GET /events/{event_id}
get_event(e) ==
    /\ get_client
    /\ ~is_closed
    /\ \E st \in Answers(RemoteGetEvent(e)) :
          req' = get_event_response(Enter("get_event", 0, e, FALSE), e, st)
    /\ issued' = First("get_event", e)
    /\ disturbed' = FALSE
    /\ futures' = <<>>
    /\ UNCHANGED <<users_db, atomic_client, users, walks, assignments, events>>

\* DELETE /assignments/{assignment_id}
delete_assignment(a) ==
    /\ get_client
    /\ ~is_closed
    /\ \E st \in Answers(RemoteDeleteAssignment(a)) :
          /\ req' = CASE ClientDelete(st) = "true" ->
                           Respond(Enter("delete_assignment", 0, a, FALSE), 204, <<>>, NoBody)
                      [] ClientDelete(st) = "false" ->
                           Respond(Enter("delete_assignment", 0, a, FALSE), 404,
                                   <<"not_found", "assignment">>, NoBody)
                      [] OTHER -> Upstream(Enter("delete_assignment", 0, a, FALSE), st)
          /\ assignments' = IF st = 204 THEN Drop(assignments, a) ELSE assignments
    /\ issued' = First("delete_assignment", a)
    /\ disturbed' = FALSE
    /\ futures' = <<>>
    /\ UNCHANGED <<users_db, atomic_client, users, walks, events>>

\* DELETE /events/{event_id}
delete_event(e) ==
    /\ get_client
    /\ ~is_closed
    /\ \E st \in Answers(RemoteDeleteEvent(e)) :
          /\ req' = CASE ClientDelete(st) = "true" ->
                           Respond(Enter("delete_event", 0, e, FALSE), 204, <<>>, NoBody)
                      [] ClientDelete(st) = "false" ->
                           Respond(Enter("delete_event", 0, e, FALSE), 404,
                                   <<"not_found", "event">>, NoBody)
                      [] OTHER -> Upstream(Enter("delete_event", 0, e, FALSE), st)
          /\ events' = IF st = 204 THEN Drop(events, e) ELSE events
    /\ issued' = First("delete_event", e)
    /\ disturbed' = FALSE
    /\ futures' = <<>>
    /\ UNCHANGED <<users_db, atomic_client, users, walks, assignments>>

\* ------------------------------------------------------------ constraints
\* Faulty variant of validate_walk_exists: a walk that is None passes the check.
validate_walk_exists_unchecked(r, st, error_message) ==
    IF ClientGet(st) = "raise" THEN Upstream(r, st)
    ELSE [r EXCEPT !.pc = "validated", !.walk = "found"]

\* Faulty variant of validate_walk_exists: a get_walk that failed counts as a
\* walk that is missing.
validate_walk_exists_swallowing(r, st, error_message) ==
    IF ClientGet(st) = "entity" THEN [r EXCEPT !.pc = "validated", !.walk = "found"]
    ELSE Respond(r, 400, error_message, NoBody)

\* validate_walk_exists, given the answer st to its get_walk: raises
\* ForeignKeyConstraintError (400) when the walk is None, passes an upstream
\* error on, and otherwise lets the handler go on.
validate_walk_exists(r, st, error_message) ==
    CASE ClientGet(st) = "raise" -> Upstream(r, st)
      [] ClientGet(st) = "none" -> Respond(r, 400, error_message, NoBody)
      [] OTHER -> [r EXCEPT !.pc = "validated", !.walk = "found"]

validate_assignment_walk_id(r, st) == validate_walk_exists(r, st, <<"fk", "assignment">>)

\* Faulty variant of validate_event_walk_id: a walk that an earlier request
\* found, and gave an assignment to, is taken to exist without believing the read.
validate_event_walk_id_cached(r, st) ==
    validate_walk_exists(r,
        IF \E a \in DOMAIN assignments : assignments[a] = r.walk_id THEN 200 ELSE st,
        <<"fk", "event">>)

validate_event_walk_id(r, st) == validate_walk_exists(r, st, <<"fk", "event">>)

\* ------------------------------------------- constrained-create endpoints
\* The handler is entered and its get_walk is answered with st.
EnterCheck(op, w, id, st) == [Enter(op, w, id, FALSE) EXCEPT !.response = st]

\* The part of a constrained create up to the answer of its existence check.
\* existed records whether the walk was stored when the check was answered.
CheckedCreate(op, w, id, validated) ==
    /\ req' = [validated EXCEPT !.existed = (w \in walks)]
    /\ issued' = First("get_walk", w)
    /\ disturbed' = FALSE
    /\ futures' = <<>>
    /\ UNCHANGED <<users_db, atomic_client, users, walks, assignments, events>>

\* POST /assignments: the id comes with the payload.
create_assignment(w, a) ==
    /\ get_client
    /\ ~is_closed
    /\ \E st \in Answers(RemoteGetWalk(w)) :
          CheckedCreate("create_assignment", w, a,
              validate_assignment_walk_id(EnterCheck("create_assignment", w, a, st), st))

\* Faulty variant of assign_walker_to_walk: the assignment is built and sent
\* without the check of the walk.
assign_walker_to_walk_unvalidated(w, a) ==
    /\ get_client
    /\ ~is_closed
    /\ a \notin DOMAIN assignments
    /\ CheckedCreate("assign_walker_to_walk", w, a,
          [Enter("assign_walker_to_walk", w, a, FALSE) EXCEPT !.pc = "validated",
                                                            !.walk = "found"])

\* POST /walks/{walk_id}/assign: AssignmentCreate(...) draws a fresh id.
assign_walker_to_walk(w, a) ==
    /\ get_client
    /\ ~is_closed
    /\ a \notin DOMAIN assignments
    /\ \E st \in Answers(RemoteGetWalk(w)) :
          CheckedCreate("assign_walker_to_walk", w, a,
              validate_assignment_walk_id(EnterCheck("assign_walker_to_walk", w, a, st), st))

\* Faulty variant of client_create_assignment: the entity is returned but the
\* create never reaches the service.
client_create_assignment_unsent ==
    /\ req.pc = "validated"
    /\ req.op \in {"create_assignment", "assign_walker_to_walk"}
    /\ req' = Respond(req, 201, <<>>, Entity("assignment", req.id, req.walk_id))
    /\ UNCHANGED <<users_db, atomic_client, users, walks, assignments, events, futures, issued, disturbed>>

\* return await client.create_assignment(assignment)
client_create_assignment ==
    /\ req.pc = "validated"
    /\ req.op \in {"create_assignment", "assign_walker_to_walk"}
    /\ \E st \in Answers(RemoteCreateAssignment(req.id)) :
          /\ req' = IF ClientCreate(st) = "entity"
                    THEN Respond(req, 201, <<>>, Entity("assignment", req.id, req.walk_id))
                    ELSE Upstream(req, st)
          /\ assignments' = IF st = 201 THEN Put(assignments, req.id, req.walk_id)
                            ELSE assignments
    /\ issued' = Issue("create_assignment", req.id)
    /\ UNCHANGED <<users_db, atomic_client, users, walks, events, futures, disturbed>>

\* POST /events: the id comes with the payload.
create_event(w, e) ==
    /\ get_client
    /\ ~is_closed
    /\ \E st \in Answers(RemoteGetWalk(w)) :
          CheckedCreate("create_event", w, e,
              validate_event_walk_id(EnterCheck("create_event", w, e, st), st))

\* POST /walks/{walk_id}/events: EventCreate(...) draws a fresh id.
create_walk_event(w, e) ==
    /\ get_client
    /\ ~is_closed
    /\ e \notin DOMAIN events
    /\ \E st \in Answers(RemoteGetWalk(w)) :
          CheckedCreate("create_walk_event", w, e,
              validate_event_walk_id(EnterCheck("create_walk_event", w, e, st), st))

\* Faulty variant of client_create_event: the walk is looked up again when the
\* create is sent, and a walk that has gone is a constraint violation.
client_create_event_rechecked ==
    /\ req.pc = "validated"
    /\ req.op \in {"create_event", "create_walk_event"}
    /\ \E st \in Answers(RemoteCreateEvent(req.id)) :
          /\ req' = IF req.walk_id \notin walks
                    THEN Respond(req, 400, <<"fk", "event">>, NoBody)
                    ELSE IF ClientCreate(st) = "entity"
                    THEN Respond(req, 201, <<>>, Entity("event", req.id, req.walk_id))
                    ELSE Upstream(req, st)
          /\ events' = IF st = 201 /\ req.walk_id \in walks
                       THEN Put(events, req.id, req.walk_id) ELSE events
    /\ issued' = Issue("create_event", req.id)
    /\ UNCHANGED <<users_db, atomic_client, users, walks, assignments, futures, disturbed>>

\* return await client.create_event(event)
client_create_event ==
    /\ req.pc = "validated"
    /\ req.op \in {"create_event", "create_walk_event"}
    /\ \E st \in Answers(RemoteCreateEvent(req.id)) :
          /\ req' = IF ClientCreate(st) = "entity"
                    THEN Respond(req, 201, <<>>, Entity("event", req.id, req.walk_id))
                    ELSE Upstream(req, st)
          /\ events' = IF st = 201 THEN Put(events, req.id, req.walk_id) ELSE events
    /\ issued' = Issue("create_event", req.id)
    /\ UNCHANGED <<users_db, atomic_client, users, walks, assignments, futures, disturbed>>

\* ------------------------------------------------ ThreadPoolExecutor
\* executor.submit(fn, id): a future waiting for a worker thread.
Future(fn, id) ==
    [fn |-> fn, id |-> id, st |-> "queued", result |-> "none", value |-> <<>>,
     first |-> <<>>, calls |-> 0, status |-> 0, seen |-> FALSE]

Running == {i \in DOMAIN futures : futures[i].st = "running"}

Queued == {i \in DOMAIN futures : futures[i].st = "queued"}

AllDone == \A i \in DOMAIN futures : futures[i].st = "done"

\* max_workers of the executor of the handler that is running.
CompleteWorkers == 2

CascadeWorkers == 4

ReviewsWorkers == 1

UserWorkers == 3

\* Faulty variant of MaxWorkers: one thread for each submitted work item.
MaxWorkers_unbounded == Len(futures)

MaxWorkers ==
    CASE req.op = "get_walk_complete" -> CompleteWorkers
      [] req.op = "get_walk_with_reviews" -> ReviewsWorkers
      [] req.op = "get_user_complete" -> UserWorkers
      [] OTHER -> CascadeWorkers

\* extract_numeric_id: the zero-padded UUID form gives the digits of its last
\* group without leading zeros; digits and any other text come back as they are.
extract_numeric_id(user_id) ==
    IF user_id.form = "padded" THEN [form |-> "digits", n |-> user_id.n] ELSE user_id

\* The call a worker function makes.
CallOf(f) ==
    CASE f.fn = "fetch_assignments" -> Call("list_assignments", f.id)
      [] f.fn = "fetch_events" -> Call("list_events", f.id)
      [] f.fn = "delete_assignment" -> Call("delete_assignment", f.id)
      [] f.fn = "delete_event" -> Call("delete_event", f.id)
      [] f.fn = "fetch_walk_reviews" -> Call("list_reviews_walkId", f.id)
      [] f.fn = "fetch_user" -> Call("get_user", extract_numeric_id(f.id))
      [] f.fn = "fetch_dogs" -> Call("get_user_dogs", extract_numeric_id(f.id))
      [] OTHER -> Call("list_reviews_ownerId", f.id)

\* Faulty variant of StartWorker: a thread runs one work item and is not used
\* again, so that only the first max_workers items are ever started.
StartWorker_threads_not_reused ==
    /\ req.pc = "fanout"
    /\ Queued # {}
    /\ Cardinality(DOMAIN futures \ Queued) < MaxWorkers
    /\ LET i == CHOOSE j \in Queued : \A k \in Queued : j <= k
       IN  /\ futures' = [futures EXCEPT ![i].st = "running"]
           /\ issued' = Append(issued, CallOf(futures[i]))
    /\ UNCHANGED <<users_db, atomic_client, users, walks, assignments, events, req, disturbed>>

\* A free worker thread takes the oldest queued work item and sends its call.
StartWorker ==
    /\ req.pc = "fanout"
    /\ Queued # {}
    /\ Cardinality(Running) < MaxWorkers
    /\ LET i == CHOOSE j \in Queued : \A k \in Queued : j <= k
       IN  /\ futures' = [futures EXCEPT ![i].st = "running"]
           /\ issued' = Append(issued, CallOf(futures[i]))
    /\ UNCHANGED <<users_db, atomic_client, users, walks, assignments, events, req, disturbed>>

\* The future i completes with the outcome of its call.
Complete(i, result, value, st) ==
    futures' = [futures EXCEPT ![i].st = "done", ![i].result = result,
                               ![i].value = value, ![i].status = st]

\* fetch_assignments: client.list_assignments(walk_id=walk_id) in a worker.
fetch_assignments(i) ==
    /\ req.pc = "fanout"
    /\ futures[i].st = "running"
    /\ futures[i].fn = "fetch_assignments"
    /\ \E st \in Answers(200) :
          IF ClientList(st) = "entities"
          THEN Complete(i, "entities", RemoteListAssignments(futures[i].id), st)
          ELSE Complete(i, "raise", <<>>, st)
    /\ UNCHANGED <<users_db, atomic_client, users, walks, assignments, events, req, issued, disturbed>>

\* fetch_events: client.list_events(walk_id=walk_id) in a worker.
fetch_events(i) ==
    /\ req.pc = "fanout"
    /\ futures[i].st = "running"
    /\ futures[i].fn = "fetch_events"
    /\ \E st \in Answers(200) :
          IF ClientList(st) = "entities"
          THEN Complete(i, "entities", RemoteListEvents(futures[i].id), st)
          ELSE Complete(i, "raise", <<>>, st)
    /\ UNCHANGED <<users_db, atomic_client, users, walks, assignments, events, req, issued, disturbed>>

\* delete_assignment(assignment_id) of delete_walk_cascade, in a worker.
cascade_delete_assignment(i) ==
    /\ req.pc = "fanout"
    /\ futures[i].st = "running"
    /\ futures[i].fn = "delete_assignment"
    /\ \E st \in Answers(RemoteDeleteAssignment(futures[i].id)) :
          /\ Complete(i, ClientDelete(st), <<>>, st)
          /\ assignments' = IF st = 204 THEN Drop(assignments, futures[i].id)
                            ELSE assignments
    /\ UNCHANGED <<users_db, atomic_client, users, walks, events, req, issued, disturbed>>

\* Faulty variant of cascade_delete_event: a deletion that failed is sent once
\* more before the worker gives up.
cascade_delete_event_retried(i) ==
    /\ req.pc = "fanout"
    /\ futures[i].st = "running"
    /\ futures[i].fn = "delete_event"
    /\ \E st \in Answers(RemoteDeleteEvent(futures[i].id)) :
          IF st \in UnexpectedStatus /\ Issued("delete_event", futures[i].id) < 2
          THEN /\ issued' = Append(issued, CallOf(futures[i]))
               /\ UNCHANGED <<futures, events>>
          ELSE /\ Complete(i, ClientDelete(st), <<>>, st)
               /\ events' = IF st = 204 THEN Drop(events, futures[i].id) ELSE events
               /\ issued' = issued
    /\ UNCHANGED <<users_db, atomic_client, users, walks, assignments, req, disturbed>>

\* delete_event(event_id) of delete_walk_cascade, in a worker.
cascade_delete_event(i) ==
    /\ req.pc = "fanout"
    /\ futures[i].st = "running"
    /\ futures[i].fn = "delete_event"
    /\ \E st \in Answers(RemoteDeleteEvent(futures[i].id)) :
          /\ Complete(i, ClientDelete(st), <<>>, st)
          /\ events' = IF st = 204 THEN Drop(events, futures[i].id) ELSE events
    /\ UNCHANGED <<users_db, atomic_client, users, walks, assignments, req, issued, disturbed>>

\* Leaving the with block: executor.shutdown(wait=True) returns once every
\* submitted work item has run.
ShutdownReturns == req.join = "shutdown" /\ AllDone

\* ------------------------------------------------------ get_walk_complete
\* GET /walks/{walk_id}/complete up to the submission of both fetches.
get_walk_complete(w) ==
    /\ get_client
    /\ ~is_closed
    /\ \E st \in Answers(RemoteGetWalk(w)) :
          LET r == [Enter("get_walk_complete", w, 0, FALSE) EXCEPT !.existed = (w \in walks)]
          IN  CASE ClientGet(st) = "raise" ->
                     req' = Upstream(r, st) /\ futures' = <<>>
                [] ClientGet(st) = "none" ->
                     /\ req' = Respond(r, 404, <<"not_found", "walk">>, NoBody)
                     /\ futures' = <<>>
                [] OTHER ->
                     /\ req' = [r EXCEPT !.pc = "fanout", !.walk = "found",
                                         !.join = "assignments_future"]
                     /\ futures' = <<Future("fetch_assignments", w), Future("fetch_events", w)>>
    /\ issued' = First("get_walk", w)
    /\ disturbed' = FALSE
    /\ UNCHANGED <<users_db, atomic_client, users, walks, assignments, events>>

\* Faulty variant of result_assignments: a failure cancels the sibling fetch.
result_assignments_cancel ==
    /\ req.pc = "fanout"
    /\ req.join = "assignments_future"
    /\ futures[1].st = "done"
    /\ req' = IF futures[1].result = "raise"
              THEN [req EXCEPT !.join = "shutdown", !.exc = futures[1].status]
              ELSE [req EXCEPT !.join = "events_future", !.assignments = futures[1].value]
    /\ futures' = IF futures[1].result = "raise" /\ futures[2].st # "done"
                  THEN [futures EXCEPT ![1].seen = TRUE, ![2].st = "done",
                                       ![2].result = "cancelled"]
                  ELSE [futures EXCEPT ![1].seen = TRUE]
    /\ UNCHANGED <<users_db, atomic_client, users, walks, assignments, events, issued, disturbed>>

\* assignments = assignments_future.result()
result_assignments ==
    /\ req.pc = "fanout"
    /\ req.join = "assignments_future"
    /\ futures[1].st = "done"
    /\ req' = IF futures[1].result = "raise"
              THEN [req EXCEPT !.join = "shutdown", !.exc = futures[1].status]
              ELSE [req EXCEPT !.join = "events_future", !.assignments = futures[1].value]
    /\ futures' = [futures EXCEPT ![1].seen = TRUE]
    /\ UNCHANGED <<users_db, atomic_client, users, walks, assignments, events, issued, disturbed>>

\* Faulty variant of result_events: the events land in the assignments.
result_events_swapped ==
    /\ req.pc = "fanout"
    /\ req.join = "events_future"
    /\ futures[2].st = "done"
    /\ req' = IF futures[2].result = "raise"
              THEN [req EXCEPT !.join = "shutdown", !.exc = futures[2].status]
              ELSE [req EXCEPT !.join = "shutdown", !.assignments = futures[2].value]
    /\ futures' = [futures EXCEPT ![2].seen = TRUE]
    /\ UNCHANGED <<users_db, atomic_client, users, walks, assignments, events, issued, disturbed>>

\* events = events_future.result()
result_events ==
    /\ req.pc = "fanout"
    /\ req.join = "events_future"
    /\ futures[2].st = "done"
    /\ req' = IF futures[2].result = "raise"
              THEN [req EXCEPT !.join = "shutdown", !.exc = futures[2].status]
              ELSE [req EXCEPT !.join = "shutdown", !.events = futures[2].value]
    /\ futures' = [futures EXCEPT ![2].seen = TRUE]
    /\ UNCHANGED <<users_db, atomic_client, users, walks, assignments, events, issued, disturbed>>

\* The response body of get_walk_complete.
CompleteBody(r) ==
    [NoBody EXCEPT !.kind = "complete", !.id = r.walk_id, !.walk_id = r.walk_id,
                   !.assignments = r.assignments, !.events = r.events,
                   !.assignment_count = Len(r.assignments),
                   !.event_count = Len(r.events)]

\* Faulty variant of get_walk_complete_return: the with block does not wait
\* for the work items that are still running.
get_walk_complete_return_nowait ==
    /\ req.op = "get_walk_complete"
    /\ req.pc = "fanout"
    /\ req.join = "shutdown"
    /\ req' = IF req.exc # 0 THEN Upstream(req, req.exc)
              ELSE Respond(req, 200, <<>>, CompleteBody(req))
    /\ UNCHANGED <<users_db, atomic_client, users, walks, assignments, events, futures, issued, disturbed>>

\* The with block is left and the handler returns (or the exception goes on).
get_walk_complete_return ==
    /\ req.op = "get_walk_complete"
    /\ req.pc = "fanout"
    /\ ShutdownReturns
    /\ req' = IF req.exc # 0 THEN Upstream(req, req.exc)
              ELSE Respond(req, 200, <<>>, CompleteBody(req))
    /\ UNCHANGED <<users_db, atomic_client, users, walks, assignments, events, futures, issued, disturbed>>

\* ---------------------------------------------------- delete_walk_cascade
\* Faulty variant of delete_walk_cascade: a walk that is None is not answered
\* with 404.
delete_walk_cascade_unchecked(w, force) ==
    /\ get_client
    /\ ~is_closed
    /\ \E st \in Answers(RemoteGetWalk(w)) :
          LET r == [Enter("delete_walk_cascade", w, 0, force) EXCEPT !.existed = (w \in walks)]
          IN  req' = IF ClientGet(st) = "raise" THEN Upstream(r, st)
                     ELSE [r EXCEPT !.pc = "dependencies", !.walk = ClientGet(st)]
    /\ issued' = First("get_walk", w)
    /\ disturbed' = FALSE
    /\ futures' = <<>>
    /\ UNCHANGED <<users_db, atomic_client, users, walks, assignments, events>>

\* DELETE /walks/{walk_id}/cascade up to the answer of get_walk.
delete_walk_cascade(w, force) ==
    /\ get_client
    /\ ~is_closed
    /\ \E st \in Answers(RemoteGetWalk(w)) :
          LET r == [Enter("delete_walk_cascade", w, 0, force) EXCEPT !.existed = (w \in walks)]
          IN  req' = CASE ClientGet(st) = "raise" -> Upstream(r, st)
                       [] ClientGet(st) = "none" ->
                            Respond(r, 404, <<"not_found", "walk">>, NoBody)
                       [] OTHER -> [r EXCEPT !.pc = "dependencies", !.walk = "found"]
    /\ issued' = First("get_walk", w)
    /\ disturbed' = FALSE
    /\ futures' = <<>>
    /\ UNCHANGED <<users_db, atomic_client, users, walks, assignments, events>>

\* validate_walk_has_no_dependencies: assignments = await client.list_assignments(...)
dependencies_assignments ==
    /\ req.pc = "dependencies"
    /\ \E st \in Answers(200) :
          req' = IF ClientList(st) = "raise" THEN Upstream(req, st)
                 ELSE [req EXCEPT !.pc = "dependencies_events",
                                  !.dep_types = IF RemoteListAssignments(req.walk_id) # <<>>
                                                THEN <<"assignments">> ELSE <<>>]
    /\ issued' = Issue("list_assignments", req.walk_id)
    /\ UNCHANGED <<users_db, atomic_client, users, walks, assignments, events, futures, disturbed>>

\* Faulty variant of validate_walk_has_no_dependencies: events are named first.
validate_walk_has_no_dependencies_events_first(r, listed) ==
    LET dependencies == IF listed # <<>> THEN <<"events">> \o r.dep_types ELSE r.dep_types
    IN  [r EXCEPT !.has_deps = (Len(dependencies) > 0), !.dep_types = dependencies]

\* Faulty variant of validate_walk_has_no_dependencies: events are not looked at.
validate_walk_has_no_dependencies_assignments_only(r, listed) ==
    [r EXCEPT !.has_deps = (Len(r.dep_types) > 0)]

\* The rest of validate_walk_has_no_dependencies, given the events it listed.
validate_walk_has_no_dependencies(r, listed) ==
    LET dependencies == IF listed # <<>> THEN Append(r.dep_types, "events") ELSE r.dep_types
    IN  [r EXCEPT !.has_deps = (Len(dependencies) > 0), !.dep_types = dependencies]

\* Faulty variant of DependencyConflict: the dependencies found are ignored.
DependencyConflict_ignored(r) == [r EXCEPT !.pc = "list_assignments"]

\* Faulty variant of DependencyConflict: the conflict is noted in the detail
\* and the handler goes on.
DependencyConflict_warns(r) ==
    [r EXCEPT !.pc = "list_assignments",
              !.detail = IF r.has_deps /\ ~r.force THEN <<"dependencies">> \o r.dep_types
                         ELSE <<>>]

\* if has_deps and not force: raise HTTPException(status_code=400, ...)
DependencyConflict(r) ==
    IF r.has_deps /\ ~r.force
    THEN Respond(r, 400, <<"dependencies">> \o r.dep_types, NoBody)
    ELSE [r EXCEPT !.pc = "list_assignments"]

\* validate_walk_has_no_dependencies: events = await client.list_events(...), and
\* the handler's check of what it returns.
dependencies_events ==
    /\ req.pc = "dependencies_events"
    /\ \E st \in Answers(200) :
          req' = IF ClientList(st) = "raise" THEN Upstream(req, st)
                 ELSE DependencyConflict(
                          validate_walk_has_no_dependencies(req, RemoteListEvents(req.walk_id)))
    /\ issued' = Issue("list_events", req.walk_id)
    /\ UNCHANGED <<users_db, atomic_client, users, walks, assignments, events, futures, disturbed>>

\* assignments = await client.list_assignments(walk_id=walk_id)
cascade_list_assignments ==
    /\ req.pc = "list_assignments"
    /\ \E st \in Answers(200) :
          req' = IF ClientList(st) = "raise" THEN Upstream(req, st)
                 ELSE [req EXCEPT !.pc = "list_events",
                                  !.assignments = RemoteListAssignments(req.walk_id)]
    /\ issued' = Issue("list_assignments", req.walk_id)
    /\ UNCHANGED <<users_db, atomic_client, users, walks, assignments, events, futures, disturbed>>

\* The futures submitted for the listed assignments, then for the listed events.
Submitted(as, es) ==
    [i \in 1..(Len(as) + Len(es)) |->
        IF i <= Len(as) THEN Future("delete_assignment", as[i])
        ELSE Future("delete_event", es[i - Len(as)])]

\* events = await client.list_events(walk_id=walk_id), then every deletion is
\* submitted to the executor and the handler waits in as_completed.
cascade_list_events ==
    /\ req.pc = "list_events"
    /\ \E st \in Answers(200) :
          IF ClientList(st) = "raise"
          THEN req' = Upstream(req, st) /\ futures' = <<>>
          ELSE /\ req' = [req EXCEPT !.pc = "fanout", !.join = "as_completed",
                                     !.events = RemoteListEvents(req.walk_id)]
               /\ futures' = Submitted(req.assignments, RemoteListEvents(req.walk_id))
    /\ issued' = Issue("list_events", req.walk_id)
    /\ UNCHANGED <<users_db, atomic_client, users, walks, assignments, events, disturbed>>

\* Faulty variant of as_completed: a deletion is counted only when it completes
\* after every deletion submitted before it.
as_completed_in_order(i) ==
    /\ req.pc = "fanout"
    /\ req.join = "as_completed"
    /\ futures[i].st = "done"
    /\ ~futures[i].seen
    /\ futures' = [futures EXCEPT ![i].seen = TRUE]
    /\ req' = CASE futures[i].result = "raise" ->
                     [req EXCEPT !.join = "shutdown", !.exc = futures[i].status]
                [] futures[i].result = "true" /\ \A j \in 1..(i - 1) : futures[j].seen ->
                     [req EXCEPT !.deleted_count = @ + 1]
                [] OTHER -> req
    /\ UNCHANGED <<users_db, atomic_client, users, walks, assignments, events, issued, disturbed>>

\* Faulty variant of as_completed: a deletion that reported not-found is counted.
as_completed_counts_all(i) ==
    /\ req.pc = "fanout"
    /\ req.join = "as_completed"
    /\ futures[i].st = "done"
    /\ ~futures[i].seen
    /\ futures' = [futures EXCEPT ![i].seen = TRUE]
    /\ req' = IF futures[i].result = "raise"
              THEN [req EXCEPT !.join = "shutdown", !.exc = futures[i].status]
              ELSE [req EXCEPT !.deleted_count = @ + 1]
    /\ UNCHANGED <<users_db, atomic_client, users, walks, assignments, events, issued, disturbed>>

\* for future in as_completed(futures): if future.result(): deleted_count += 1
\* future.result() re-raises what the worker raised, which ends the loop.
as_completed(i) ==
    /\ req.pc = "fanout"
    /\ req.join = "as_completed"
    /\ futures[i].st = "done"
    /\ ~futures[i].seen
    /\ futures' = [futures EXCEPT ![i].seen = TRUE]
    /\ req' = CASE futures[i].result = "raise" ->
                     [req EXCEPT !.join = "shutdown", !.exc = futures[i].status]
                [] futures[i].result = "true" ->
                     [req EXCEPT !.deleted_count = @ + 1]
                [] OTHER -> req
    /\ UNCHANGED <<users_db, atomic_client, users, walks, assignments, events, issued, disturbed>>

\* as_completed has yielded every future: the loop ends and the with block is left.
as_completed_exhausted ==
    /\ req.pc = "fanout"
    /\ req.join = "as_completed"
    /\ \A i \in DOMAIN futures : futures[i].seen
    /\ req' = [req EXCEPT !.join = "shutdown"]
    /\ UNCHANGED <<users_db, atomic_client, users, walks, assignments, events, futures, issued, disturbed>>

\* Faulty variant of cascade_shutdown: a worker's exception is swallowed.
cascade_shutdown_swallow ==
    /\ req.op = "delete_walk_cascade"
    /\ req.pc = "fanout"
    /\ ShutdownReturns
    /\ req' = [req EXCEPT !.pc = "delete_walk", !.join = "left"]
    /\ UNCHANGED <<users_db, atomic_client, users, walks, assignments, events, futures, issued, disturbed>>

\* Faulty variant of cascade_shutdown: the handler goes on without joining
\* the deletions it submitted.
cascade_shutdown_nowait ==
    /\ req.op = "delete_walk_cascade"
    /\ req.pc = "fanout"
    /\ req' = IF req.exc # 0 THEN Upstream(req, req.exc)
              ELSE [req EXCEPT !.pc = "delete_walk", !.join = "left"]
    /\ UNCHANGED <<users_db, atomic_client, users, walks, assignments, events, futures, issued, disturbed>>

\* The with block is left: an exception of the loop goes to the caller,
\* otherwise the handler goes on to delete the walk.
cascade_shutdown ==
    /\ req.op = "delete_walk_cascade"
    /\ req.pc = "fanout"
    /\ ShutdownReturns
    /\ req' = IF req.exc # 0 THEN Upstream(req, req.exc)
              ELSE [req EXCEPT !.pc = "delete_walk", !.join = "left"]
    /\ UNCHANGED <<users_db, atomic_client, users, walks, assignments, events, futures, issued, disturbed>>

\* Faulty variant of CascadeBody: both kinds are reported with the number of
\* all dependents.
CascadeBody_total(r) ==
    [NoBody EXCEPT !.kind = "cascade", !.walk_id = r.walk_id,
                   !.assignment_count = Len(r.assignments) + Len(r.events),
                   !.event_count = Len(r.assignments) + Len(r.events),
                   !.deleted_count = r.deleted_count]

\* The response body of delete_walk_cascade.
CascadeBody(r) ==
    [NoBody EXCEPT !.kind = "cascade", !.walk_id = r.walk_id,
                   !.assignment_count = Len(r.assignments),
                   !.event_count = Len(r.events),
                   !.deleted_count = r.deleted_count]

\* Faulty variant of cascade_delete_walk: the summary is returned without the
\* delete of the walk.
cascade_delete_walk_skipped ==
    /\ req.pc = "delete_walk"
    /\ req' = Respond(req, 200, <<>>, CascadeBody(req))
    /\ UNCHANGED <<users_db, atomic_client, users, walks, assignments, events, futures, issued, disturbed>>

\* await client.delete_walk(walk_id), then the summary is returned.
cascade_delete_walk ==
    /\ req.pc = "delete_walk"
    /\ \E st \in Answers(RemoteDeleteWalk(req.walk_id)) :
          /\ req' = IF ClientDelete(st) = "raise" THEN Upstream(req, st)
                    ELSE Respond(req, 200, <<>>, CascadeBody(req))
          /\ walks' = IF st = 204 THEN walks \ {req.walk_id} ELSE walks
    /\ issued' = Issue("delete_walk", req.walk_id)
    /\ UNCHANGED <<users_db, atomic_client, users, assignments, events, futures, disturbed>>

\* The response has gone to the caller; the handler's frame is gone.
Deliver ==
    /\ req.pc = "done"
    /\ req' = Idle
    /\ futures' = <<>>
    /\ issued' = <<>>
    /\ disturbed' = FALSE
    /\ UNCHANGED <<users_db, atomic_client, users, walks, assignments, events>>

\* ------------------------------------------- requests of other clients
\* The followed request is suspended at an await, outside any executor block.
Suspended == req.pc \notin {"idle", "done", "fanout"}

\* Another client's DELETE /walks/{walk_id} is served.
OtherDeleteWalk(w) ==
    /\ Suspended
    /\ RemoteDeleteWalk(w) = 204
    /\ walks' = walks \ {w}
    /\ disturbed' = TRUE
    /\ UNCHANGED <<users_db, atomic_client, users, assignments, events, req, futures, issued>>

\* Another client's DELETE /assignments/{assignment_id} is served.
OtherDeleteAssignment(a) ==
    /\ Suspended
    /\ RemoteDeleteAssignment(a) = 204
    /\ assignments' = Drop(assignments, a)
    /\ disturbed' = TRUE
    /\ UNCHANGED <<users_db, atomic_client, users, walks, events, req, futures, issued>>

\* Another client's DELETE /events/{event_id} is served.
OtherDeleteEvent(e) ==
    /\ Suspended
    /\ RemoteDeleteEvent(e) = 204
    /\ events' = Drop(events, e)
    /\ disturbed' = TRUE
    /\ UNCHANGED <<users_db, atomic_client, users, walks, assignments, req, futures, issued>>

Next ==
    \/ \E w \in WalkIds : create_walk(w)
    \/ \E w \in WalkIds : delete_walk(w)
    \/ \E w \in WalkIds : get_walk(w)
    \/ \E a \in AssignmentIds : get_assignment(a)
    \/ \E e \in EventIds : get_event(e)
    \/ \E a \in AssignmentIds : delete_assignment(a)
    \/ \E e \in EventIds : delete_event(e)
    \/ \E w \in WalkIds, a \in AssignmentIds : create_assignment(w, a)
    \/ \E w \in WalkIds, a \in AssignmentIds : assign_walker_to_walk(w, a)
    \/ client_create_assignment
    \/ \E w \in WalkIds, e \in EventIds : create_event(w, e)
    \/ \E w \in WalkIds, e \in EventIds : create_walk_event(w, e)
    \/ client_create_event
    \/ \E w \in WalkIds : get_walk_complete(w)
    \/ StartWorker
    \/ \E i \in DOMAIN futures : fetch_assignments(i)
    \/ \E i \in DOMAIN futures : fetch_events(i)
    \/ result_assignments
    \/ result_events
    \/ get_walk_complete_return
    \/ \E w \in WalkIds, force \in BOOLEAN : delete_walk_cascade(w, force)
    \/ dependencies_assignments
    \/ dependencies_events
    \/ cascade_list_assignments
    \/ cascade_list_events
    \/ \E i \in DOMAIN futures : cascade_delete_assignment(i)
    \/ \E i \in DOMAIN futures : cascade_delete_event(i)
    \/ \E i \in DOMAIN futures : as_completed(i)
    \/ as_completed_exhausted
    \/ cascade_shutdown
    \/ cascade_delete_walk
    \/ Deliver
    \/ \E w \in WalkIds : OtherDeleteWalk(w)
    \/ \E a \in AssignmentIds : OtherDeleteAssignment(a)
    \/ \E e \in EventIds : OtherDeleteEvent(e)

Spec == Init /\ [][Next]_vars

\* ================================================ pawpal-composite-service
MaxDogs == 1

MaxReviews == 1

\* The lists of at most n entities a listing can answer.
Lists(n) == {[i \in 1..k |-> i] : k \in 0..n}

\* ----------------------------------------- User and Review service contract
\* GET /api/users/{numeric_id}: 200 for a stored user, 404 otherwise.
RemoteGetUser(id) == IF id.form = "digits" /\ id.n \in users THEN 200 ELSE 404

\* GET /api/users/{numeric_id}/dogs: 200 for a stored user, 404 otherwise.
RemoteGetUserDogs(id) == RemoteGetUser(id)

\* GET /reviews with a filter: 200 and the page of reviews that match.
RemoteListReviews == 200

\* A function of the service layer returns value to its caller.
Return(r, value, body) == Respond(r, 0, <<"return", value>>, body)

\* UserServiceClient.get_user_dogs: the dogs on 200, [] on 404, otherwise
\* HTTPException(status).
ClientDogs(st) == IF st \in {200, 404} THEN "entities" ELSE "raise"

\* ------------------------------------------ validate_review_foreign_keys
\* Faulty variant of validate_user_exists: a user that is None passes the check.
validate_user_exists_unchecked(r, st, error_message, next) ==
    IF ClientGet(st) = "raise" THEN Upstream(r, st) ELSE [r EXCEPT !.pc = next]

\* validate_user_exists, given the answer st to its get_user: raises
\* ForeignKeyConstraintError(error_message) for None, else goes on at next.
validate_user_exists(r, st, error_message, next) ==
    CASE ClientGet(st) = "raise" -> Upstream(r, st)
      [] ClientGet(st) = "none" -> Respond(r, 400, error_message, NoBody)
      [] OTHER -> [r EXCEPT !.pc = next]

\* Faulty variant of validate_review_foreign_keys: the walk id goes to the walk
\* check as it is, without UUID(walk_id).
validate_review_foreign_keys_unparsed(wellformed, w, owner_id, walker_id) ==
    /\ Free
    /\ LET r == [Enter("validate_review_foreign_keys", w, 0, FALSE)
                   EXCEPT !.wellformed = wellformed, !.owner_id = owner_id,
                          !.walker_id = walker_id]
       IN  /\ \E st \in Answers(RemoteGetWalk(w)) :
                  req' = [validate_walk_exists(r, st, <<"fk", "walk">>)
                            EXCEPT !.pc = IF @ = "validated" THEN "owner" ELSE @]
           /\ issued' = First("get_walk", w)
    /\ futures' = <<>>
    /\ disturbed' = FALSE
    /\ UNCHANGED <<users_db, atomic_client, users, walks, assignments, events>>

\* validate_review_foreign_keys up to the end of its walk check: UUID(walk_id)
\* raises ValueError for a malformed id before any call is made.
validate_review_foreign_keys(wellformed, w, owner_id, walker_id) ==
    /\ Free
    /\ LET r == [Enter("validate_review_foreign_keys", w, 0, FALSE)
                   EXCEPT !.wellformed = wellformed, !.owner_id = owner_id,
                          !.walker_id = walker_id]
       IN  IF ~wellformed
           THEN /\ req' = Respond(r, 400, <<"invalid_walk_id">>, NoBody)
                /\ issued' = <<>>
           ELSE /\ \E st \in Answers(RemoteGetWalk(w)) :
                      req' = [validate_walk_exists(r, st, <<"fk", "walk">>)
                                EXCEPT !.pc = IF @ = "validated" THEN "owner" ELSE @]
                /\ issued' = First("get_walk", w)
    /\ futures' = <<>>
    /\ disturbed' = FALSE
    /\ UNCHANGED <<users_db, atomic_client, users, walks, assignments, events>>

\* await validate_user_exists(user_client, owner_id, "Owner ... does not exist")
validate_review_owner ==
    /\ req.op = "validate_review_foreign_keys"
    /\ req.pc = "owner"
    /\ \E st \in Answers(RemoteGetUser(extract_numeric_id(req.owner_id))) :
          req' = validate_user_exists(req, st, <<"fk", "owner">>, "walker")
    /\ issued' = Issue("get_user", extract_numeric_id(req.owner_id))
    /\ UNCHANGED <<users_db, atomic_client, users, walks, assignments, events, futures, disturbed>>

\* await validate_user_exists(user_client, walker_id, "Walker ... does not exist")
validate_review_walker ==
    /\ req.op = "validate_review_foreign_keys"
    /\ req.pc = "walker"
    /\ \E st \in Answers(RemoteGetUser(extract_numeric_id(req.walker_id))) :
          LET r == validate_user_exists(req, st, <<"fk", "walker">>, "passed")
          IN  req' = IF r.pc = "passed" THEN Return(r, "None", NoBody) ELSE r
    /\ issued' = Issue("get_user", extract_numeric_id(req.walker_id))
    /\ UNCHANGED <<users_db, atomic_client, users, walks, assignments, events, futures, disturbed>>

\* ------------------------------------------------- get_walk_with_reviews
\* Faulty variant of get_walk_with_reviews: the reviews are fetched whether or
\* not the walk was found.
get_walk_with_reviews_unchecked(w) ==
    /\ Free
    /\ \E st \in Answers(RemoteGetWalk(w)) :
          LET r == [Enter("get_walk_with_reviews", w, 0, FALSE)
                      EXCEPT !.existed = (w \in walks)]
          IN  IF ClientGet(st) = "raise"
              THEN req' = Upstream(r, st) /\ futures' = <<>>
              ELSE /\ req' = [r EXCEPT !.pc = "fanout", !.walk = ClientGet(st),
                                       !.join = "reviews_future"]
                   /\ futures' = <<Future("fetch_walk_reviews", w)>>
    /\ issued' = First("get_walk", w)
    /\ disturbed' = FALSE
    /\ UNCHANGED <<users_db, atomic_client, users, walks, assignments, events>>

\* OrchestrationService.get_walk_with_reviews up to the submission of the fetch.
get_walk_with_reviews(w) ==
    /\ Free
    /\ \E st \in Answers(RemoteGetWalk(w)) :
          LET r == [Enter("get_walk_with_reviews", w, 0, FALSE)
                      EXCEPT !.existed = (w \in walks)]
          IN  CASE ClientGet(st) = "raise" ->
                     req' = Upstream(r, st) /\ futures' = <<>>
                [] ClientGet(st) = "none" ->
                     req' = Return(r, "None", NoBody) /\ futures' = <<>>
                [] OTHER ->
                     /\ req' = [r EXCEPT !.pc = "fanout", !.walk = "entity",
                                         !.join = "reviews_future"]
                     /\ futures' = <<Future("fetch_walk_reviews", w)>>
    /\ issued' = First("get_walk", w)
    /\ disturbed' = FALSE
    /\ UNCHANGED <<users_db, atomic_client, users, walks, assignments, events>>

\* fetch_reviews of get_walk_with_reviews: list_reviews(walkId=...) in a worker.
fetch_walk_reviews(i) ==
    /\ req.pc = "fanout"
    /\ futures[i].st = "running"
    /\ futures[i].fn = "fetch_walk_reviews"
    /\ \E st \in Answers(RemoteListReviews) :
          IF ClientList(st) = "entities"
          THEN \E data \in Lists(MaxReviews) : Complete(i, "entities", data, st)
          ELSE Complete(i, "raise", <<>>, st)
    /\ UNCHANGED <<users_db, atomic_client, users, walks, assignments, events, req, issued, disturbed>>

\* reviews_data = reviews_future.result()
result_walk_reviews ==
    /\ req.op = "get_walk_with_reviews"
    /\ req.pc = "fanout"
    /\ req.join = "reviews_future"
    /\ futures[1].st = "done"
    /\ req' = IF futures[1].result = "raise"
              THEN [req EXCEPT !.join = "shutdown", !.exc = futures[1].status]
              ELSE [req EXCEPT !.join = "shutdown", !.reviews = futures[1].value]
    /\ futures' = [futures EXCEPT ![1].seen = TRUE]
    /\ UNCHANGED <<users_db, atomic_client, users, walks, assignments, events, issued, disturbed>>

\* The dict get_walk_with_reviews returns.
WalkReviewsBody(r) ==
    [NoBody EXCEPT !.kind = "walk_with_reviews", !.id = r.walk_id, !.walk_id = r.walk_id,
                   !.reviews = r.reviews, !.review_count = Len(r.reviews)]

\* The with block is left and the function returns (or the exception goes on).
get_walk_with_reviews_return ==
    /\ req.op = "get_walk_with_reviews"
    /\ req.pc = "fanout"
    /\ ShutdownReturns
    /\ req' = IF req.exc # 0 THEN Upstream(req, req.exc)
              ELSE Return(req, "dict", WalkReviewsBody(req))
    /\ UNCHANGED <<users_db, atomic_client, users, walks, assignments, events, futures, issued, disturbed>>

\* ----------------------------------------------------- get_user_complete
\* OrchestrationService.get_user_complete up to the submission of its three
\* fetches: nothing is called before the executor block.
get_user_complete(user_id) ==
    /\ Free
    /\ req' = [Enter("get_user_complete", 0, 0, FALSE)
                 EXCEPT !.user_id = user_id, !.pc = "fanout", !.join = "user_future",
                        !.existed = (RemoteGetUser(extract_numeric_id(user_id)) = 200)]
    /\ futures' = <<Future("fetch_user", user_id), Future("fetch_dogs", user_id),
                    Future("fetch_user_reviews", user_id)>>
    /\ issued' = <<>>
    /\ disturbed' = FALSE
    /\ UNCHANGED <<users_db, atomic_client, users, walks, assignments, events>>

\* fetch_user: user_client.get_user(user_id) in a worker.
fetch_user(i) ==
    /\ req.pc = "fanout"
    /\ futures[i].st = "running"
    /\ futures[i].fn = "fetch_user"
    /\ \E st \in Answers(RemoteGetUser(extract_numeric_id(futures[i].id))) :
          Complete(i, ClientGet(st), <<>>, st)
    /\ UNCHANGED <<users_db, atomic_client, users, walks, assignments, events, req, issued, disturbed>>

\* fetch_dogs: user_client.get_user_dogs(user_id) in a worker.
fetch_dogs(i) ==
    /\ req.pc = "fanout"
    /\ futures[i].st = "running"
    /\ futures[i].fn = "fetch_dogs"
    /\ \E st \in Answers(RemoteGetUserDogs(extract_numeric_id(futures[i].id))) :
          CASE ClientDogs(st) = "raise" -> Complete(i, "raise", <<>>, st)
            [] st = 404 -> Complete(i, "entities", <<>>, st)
            [] OTHER -> \E data \in Lists(MaxDogs) : Complete(i, "entities", data, st)
    /\ UNCHANGED <<users_db, atomic_client, users, walks, assignments, events, req, issued, disturbed>>

\* fetch_reviews of get_user_complete, first call: list_reviews(ownerId=user_id);
\* when it returns, list_reviews(walkerId=user_id) is sent.
fetch_owner_reviews(i) ==
    /\ req.pc = "fanout"
    /\ futures[i].st = "running"
    /\ futures[i].fn = "fetch_user_reviews"
    /\ futures[i].calls = 0
    /\ \E st \in Answers(RemoteListReviews) :
          IF ClientList(st) = "entities"
          THEN /\ \E data \in Lists(MaxReviews) :
                     futures' = [futures EXCEPT ![i].first = data, ![i].calls = 1]
               /\ issued' = Issue("list_reviews_walkerId", futures[i].id)
          ELSE /\ Complete(i, "raise", <<>>, st)
               /\ issued' = issued
    /\ UNCHANGED <<users_db, atomic_client, users, walks, assignments, events, req, disturbed>>

\* fetch_reviews of get_user_complete, second call: list_reviews(walkerId=user_id).
fetch_walker_reviews(i) ==
    /\ req.pc = "fanout"
    /\ futures[i].st = "running"
    /\ futures[i].fn = "fetch_user_reviews"
    /\ futures[i].calls = 1
    /\ \E st \in Answers(RemoteListReviews) :
          IF ClientList(st) = "entities"
          THEN \E data \in Lists(MaxReviews) : Complete(i, "entities", data, st)
          ELSE Complete(i, "raise", <<>>, st)
    /\ UNCHANGED <<users_db, atomic_client, users, walks, assignments, events, req, issued, disturbed>>

\* user = user_future.result()
result_user ==
    /\ req.op = "get_user_complete"
    /\ req.pc = "fanout"
    /\ req.join = "user_future"
    /\ futures[1].st = "done"
    /\ req' = IF futures[1].result = "raise"
              THEN [req EXCEPT !.join = "shutdown", !.exc = futures[1].status]
              ELSE [req EXCEPT !.join = "dogs_future", !.user = futures[1].result]
    /\ futures' = [futures EXCEPT ![1].seen = TRUE]
    /\ UNCHANGED <<users_db, atomic_client, users, walks, assignments, events, issued, disturbed>>

\* dogs = dogs_future.result()
result_dogs ==
    /\ req.op = "get_user_complete"
    /\ req.pc = "fanout"
    /\ req.join = "dogs_future"
    /\ futures[2].st = "done"
    /\ req' = IF futures[2].result = "raise"
              THEN [req EXCEPT !.join = "shutdown", !.exc = futures[2].status]
              ELSE [req EXCEPT !.join = "reviews_future", !.dogs = futures[2].value]
    /\ futures' = [futures EXCEPT ![2].seen = TRUE]
    /\ UNCHANGED <<users_db, atomic_client, users, walks, assignments, events, issued, disturbed>>

\* reviews = reviews_future.result()
result_user_reviews ==
    /\ req.op = "get_user_complete"
    /\ req.pc = "fanout"
    /\ req.join = "reviews_future"
    /\ futures[3].st = "done"
    /\ req' = IF futures[3].result = "raise"
              THEN [req EXCEPT !.join = "shutdown", !.exc = futures[3].status]
              ELSE [req EXCEPT !.join = "shutdown", !.as_owner = futures[3].first,
                               !.as_walker = futures[3].value]
    /\ futures' = [futures EXCEPT ![3].seen = TRUE]
    /\ UNCHANGED <<users_db, atomic_client, users, walks, assignments, events, issued, disturbed>>

\* The dict get_user_complete returns.
UserBody(r) ==
    [NoBody EXCEPT !.kind = "user_complete", !.dogs = r.dogs, !.as_owner = r.as_owner,
                   !.as_walker = r.as_walker, !.dog_count = Len(r.dogs),
                   !.review_count = Len(r.as_owner) + Len(r.as_walker)]

\* Faulty variant of get_user_complete_return: a user that is None is answered
\* with None whatever the other workers raised.
get_user_complete_return_absent_first ==
    /\ req.op = "get_user_complete"
    /\ req.pc = "fanout"
    /\ ShutdownReturns
    /\ req' = CASE futures[1].result = "none" -> Return(req, "None", NoBody)
                [] req.exc # 0 -> Upstream(req, req.exc)
                [] OTHER -> Return(req, "dict", UserBody(req))
    /\ UNCHANGED <<users_db, atomic_client, users, walks, assignments, events, futures, issued, disturbed>>

\* The with block is left: an exception goes on; only now is a user that is
\* None answered with None.
get_user_complete_return ==
    /\ req.op = "get_user_complete"
    /\ req.pc = "fanout"
    /\ ShutdownReturns
    /\ req' = CASE req.exc # 0 -> Upstream(req, req.exc)
                [] req.user = "none" -> Return(req, "None", NoBody)
                [] OTHER -> Return(req, "dict", UserBody(req))
    /\ UNCHANGED <<users_db, atomic_client, users, walks, assignments, events, futures, issued, disturbed>>

\* The Walk and User services hold any walks and users when a call comes in.
InitPawPal ==
    /\ walks \in SUBSET WalkIds
    /\ users \in SUBSET UserIds
    /\ users_db = NoEntities
    /\ atomic_client = "client"
    /\ assignments = NoEntities
    /\ events = NoEntities
    /\ req = Idle
    /\ futures = <<>>
    /\ issued = <<>>
    /\ disturbed = FALSE

\* The review validator and the aggregate reads of both composite services, over
\* stores that no request changes.
NextPawPal ==
    \/ \E wellformed \in BOOLEAN, w \in WalkIds, o \in UserIdStrings, k \in UserIdStrings :
          validate_review_foreign_keys(wellformed, w, o, k)
    \/ validate_review_owner
    \/ validate_review_walker
    \/ \E w \in WalkIds : get_walk_with_reviews(w)
    \/ \E i \in DOMAIN futures : fetch_walk_reviews(i)
    \/ result_walk_reviews
    \/ get_walk_with_reviews_return
    \/ \E u \in UserIdStrings : get_user_complete(u)
    \/ \E i \in DOMAIN futures : fetch_user(i)
    \/ \E i \in DOMAIN futures : fetch_dogs(i)
    \/ \E i \in DOMAIN futures : fetch_owner_reviews(i)
    \/ \E i \in DOMAIN futures : fetch_walker_reviews(i)
    \/ result_user
    \/ result_dogs
    \/ result_user_reviews
    \/ get_user_complete_return
    \/ \E w \in WalkIds : get_walk_complete(w)
    \/ \E i \in DOMAIN futures : fetch_assignments(i)
    \/ \E i \in DOMAIN futures : fetch_events(i)
    \/ result_assignments
    \/ result_events
    \/ get_walk_complete_return
    \/ StartWorker
    \/ Deliver

SpecPawPal == InitPawPal /\ [][NextPawPal]_vars

\* ================================================== walks with many dependents
MaxPoolAssignments == 4

\* The entities 1..k, all of the walk w.
AllOf(k, w) == [x \in 1..k |-> w]

\* A walk that has gathered up to MaxPoolAssignments assignments and perhaps
\* an event: more than an executor has threads for.
InitPool ==
    /\ walks = {1}
    /\ \E k \in 0..MaxPoolAssignments : assignments = AllOf(k, 1)
    /\ \E k \in {0, 1} : events = AllOf(k, 1)
    /\ users = {}
    /\ users_db = NoEntities
    /\ atomic_client = "client"
    /\ req = Idle
    /\ futures = <<>>
    /\ issued = <<>>
    /\ disturbed = FALSE

\* The two endpoints that fan out, and other clients deleting dependents while
\* the cascade is at an await.
NextPool ==
    \/ \E w \in WalkIds : get_walk_complete(w)
    \/ \E i \in DOMAIN futures : fetch_assignments(i)
    \/ \E i \in DOMAIN futures : fetch_events(i)
    \/ result_assignments
    \/ result_events
    \/ get_walk_complete_return
    \/ \E w \in WalkIds, force \in BOOLEAN : delete_walk_cascade(w, force)
    \/ dependencies_assignments
    \/ dependencies_events
    \/ cascade_list_assignments
    \/ cascade_list_events
    \/ StartWorker
    \/ \E i \in DOMAIN futures : cascade_delete_assignment(i)
    \/ \E i \in DOMAIN futures : cascade_delete_event(i)
    \/ \E i \in DOMAIN futures : as_completed(i)
    \/ as_completed_exhausted
    \/ cascade_shutdown
    \/ cascade_delete_walk
    \/ Deliver
    \/ \E a \in DOMAIN assignments : OtherDeleteAssignment(a)
    \/ \E e \in DOMAIN events : OtherDeleteEvent(e)

SpecPool == InitPool /\ [][NextPool]_vars

\* The steps of the followed request once it is in its handler: the answers to
\* its awaited calls, the work of the pool's threads, the joins and the return.
Progress ==
    \/ \E i \in DOMAIN futures : fetch_assignments(i)
    \/ \E i \in DOMAIN futures : fetch_events(i)
    \/ result_assignments
    \/ result_events
    \/ get_walk_complete_return
    \/ dependencies_assignments
    \/ dependencies_events
    \/ cascade_list_assignments
    \/ cascade_list_events
    \/ StartWorker
    \/ \E i \in DOMAIN futures : cascade_delete_assignment(i)
    \/ \E i \in DOMAIN futures : cascade_delete_event(i)
    \/ \E i \in DOMAIN futures : as_completed(i)
    \/ as_completed_exhausted
    \/ cascade_shutdown
    \/ cascade_delete_walk

\* Every remote call returns in the end (httpx timeout=30.0), the event loop
\* resumes the handler, and the executor runs a queued item when a thread is free.
SpecPoolFair == SpecPool /\ WF_vars(Progress)

\* ------------------------------------------ creates of other clients
\* Another client's create of an assignment for the walk w reaches the service.
OtherCreateAssignment(w, a) ==
    /\ Suspended
    /\ w \in walks
    /\ RemoteCreateAssignment(a) = 201
    /\ assignments' = Put(assignments, a, w)
    /\ disturbed' = TRUE
    /\ UNCHANGED <<users_db, atomic_client, users, walks, events, req, futures, issued>>

\* Another client's create of an event for the walk w reaches the service.
OtherCreateEvent(w, e) ==
    /\ Suspended
    /\ w \in walks
    /\ RemoteCreateEvent(e) = 201
    /\ events' = Put(events, e, w)
    /\ disturbed' = TRUE
    /\ UNCHANGED <<users_db, atomic_client, users, walks, assignments, req, futures, issued>>

\* Every walk is stored, with any dependents.
InitRace ==
    /\ walks = WalkIds
    /\ assignments \in UNION {[ids -> WalkIds] : ids \in SUBSET AssignmentIds}
    /\ events \in UNION {[ids -> WalkIds] : ids \in SUBSET EventIds}
    /\ users = {}
    /\ users_db = NoEntities
    /\ atomic_client = "client"
    /\ req = Idle
    /\ futures = <<>>
    /\ issued = <<>>
    /\ disturbed = FALSE

\* Cascade-deletes among the writes of other clients.
NextRace ==
    \/ \E w \in WalkIds, force \in BOOLEAN : delete_walk_cascade(w, force)
    \/ dependencies_assignments
    \/ dependencies_events
    \/ cascade_list_assignments
    \/ cascade_list_events
    \/ StartWorker
    \/ \E i \in DOMAIN futures : cascade_delete_assignment(i)
    \/ \E i \in DOMAIN futures : cascade_delete_event(i)
    \/ \E i \in DOMAIN futures : as_completed(i)
    \/ as_completed_exhausted
    \/ cascade_shutdown
    \/ cascade_delete_walk
    \/ Deliver
    \/ \E w \in WalkIds, a \in AssignmentIds : OtherCreateAssignment(w, a)
    \/ \E w \in WalkIds, e \in EventIds : OtherCreateEvent(w, e)
    \/ \E w \in WalkIds : OtherDeleteWalk(w)
    \/ \E a \in AssignmentIds : OtherDeleteAssignment(a)
    \/ \E e \in EventIds : OtherDeleteEvent(e)

SpecRace == InitRace /\ [][NextRace]_vars

\* ===================================================== extract_numeric_id
MaxIdLen == 4

\* The characters of a user id: "P" stands for the text
\* 00000000-0000-0000-0000- that the pattern begins with, "0" and "9" for the
\* digits, "a" for any other character, "LF" for a newline.
IdChars == {"P", "0", "9", "a", "LF"}

\* \d
IdDigits == {"0", "9"}

\* The strings of up to MaxIdLen characters.
IdStrings == UNION {[1..n -> IdChars] : n \in 0..MaxIdLen}

\* str.isdigit(): at least one character, and all of them digits.
isdigit(s) == s # <<>> /\ \A i \in DOMAIN s : s[i] \in IdDigits

\* Faulty variant of BeforeDollar: $ matches at the very end only.
BeforeDollar_end_only(s) == s

\* $ matches at the end of the string and just before a newline that ends it:
\* what the pattern has to match up to $.
BeforeDollar(s) ==
    IF s # <<>> /\ s[Len(s)] = "LF" THEN SubSeq(s, 1, Len(s) - 1) ELSE s

\* The zeros a string begins with.
RECURSIVE LeadingZeros(_)
LeadingZeros(s) == IF s # <<>> /\ Head(s) = "0" THEN 1 + LeadingZeros(Tail(s)) ELSE 0

\* re.match(uuid_pattern, user_id) matches: the prefix, then digits up to $.
uuid_pattern_matches(user_id) ==
    /\ user_id # <<>>
    /\ Head(user_id) = "P"
    /\ isdigit(BeforeDollar(Tail(user_id)))

\* match.group(1): 0* takes the leading zeros but leaves \d+ one digit.
uuid_pattern_group(user_id) ==
    LET digits == BeforeDollar(Tail(user_id))
        zeros == LeadingZeros(digits)
        k == IF zeros = Len(digits) THEN zeros - 1 ELSE zeros
    IN  SubSeq(digits, k + 1, Len(digits))

\* extract_numeric_id on the characters of the id.
extract_numeric_id_chars(user_id) ==
    IF uuid_pattern_matches(user_id) THEN uuid_pattern_group(user_id)
    ELSE IF isdigit(user_id) THEN user_id
    ELSE user_id

\* extract_numeric_id(user_id)
extract_numeric_id_call(user_id) ==
    /\ Free
    /\ req' = [Idle EXCEPT !.op = "extract_numeric_id", !.pc = "extracted",
                           !.payload = user_id,
                           !.returned = extract_numeric_id_chars(user_id)]
    /\ UNCHANGED <<users_db, atomic_client, users, walks, assignments, events, futures,
                   issued, disturbed>>

\* extract_numeric_id of what extract_numeric_id returned
extract_numeric_id_again ==
    /\ req.op = "extract_numeric_id"
    /\ req.pc = "extracted"
    /\ req' = [req EXCEPT !.pc = "done", !.stored = extract_numeric_id_chars(req.returned)]
    /\ UNCHANGED <<users_db, atomic_client, users, walks, assignments, events, futures,
                   issued, disturbed>>

NextExtract ==
    \/ \E user_id \in IdStrings : extract_numeric_id_call(user_id)
    \/ extract_numeric_id_again
    \/ Deliver

SpecExtract == Init /\ [][NextExtract]_vars

\* ============================================================ the lifespan
\* Update answers 200 with the entity or 404.
RemoteUpdateWalk(w) == IF w \in walks THEN 200 ELSE 404

RemoteUpdateAssignment(a) == IF a \in DOMAIN assignments THEN 200 ELSE 404

\* Listing answers 200 with the entities.
RemoteList == 200

\* A delegated endpoint that returns what the client method returns.
Delegated(r, outcome, st) ==
    IF outcome = "raise" THEN Upstream(r, st)
    ELSE Respond(r, 200, <<>>, [NoBody EXCEPT !.kind = outcome])

\* GET /walks
list_walks ==
    /\ get_client
    /\ ~is_closed
    /\ \E st \in Answers(RemoteList) :
          req' = Delegated(Enter("list_walks", 0, 0, FALSE), ClientList(st), st)
    /\ issued' = First("list_walks", 0)
    /\ disturbed' = FALSE
    /\ futures' = <<>>
    /\ UNCHANGED <<users_db, atomic_client, users, walks, assignments, events>>

\* PATCH /walks/{walk_id}
update_walk(w) ==
    /\ get_client
    /\ ~is_closed
    /\ \E st \in Answers(RemoteUpdateWalk(w)) :
          req' = Delegated(Enter("update_walk", w, 0, FALSE), ClientUpdate(st), st)
    /\ issued' = First("update_walk", w)
    /\ disturbed' = FALSE
    /\ futures' = <<>>
    /\ UNCHANGED <<users_db, atomic_client, users, walks, assignments, events>>

\* GET /assignments
list_assignments ==
    /\ get_client
    /\ ~is_closed
    /\ \E st \in Answers(RemoteList) :
          req' = Delegated(Enter("list_assignments", 0, 0, FALSE), ClientList(st), st)
    /\ issued' = First("list_assignments", 0)
    /\ disturbed' = FALSE
    /\ futures' = <<>>
    /\ UNCHANGED <<users_db, atomic_client, users, walks, assignments, events>>

\* Faulty variant of model_dump_exclude_unset: every field is dumped, the
\* unset ones with their default None.
model_dump_all(update) == update.fields

\* model_dump(exclude_unset=True) of a UserUpdate: the fields that were set.
model_dump_exclude_unset(update) == [f \in update.set |-> update.fields[f]]

\* stored.update(...): the keys of the update overwrite, the others stay.
Merge(stored, dumped) ==
    [f \in DOMAIN stored |-> IF f \in DOMAIN dumped THEN dumped[f] ELSE stored[f]]

\* The fields of AssignmentUpdate; an assignment has a walk_id besides.
AssignmentUpdateFields == {"start_time", "end_time", "status", "notes"}

AssignmentFields == AssignmentUpdateFields \cup {"walk_id"}

\* The JSON documents a caller may send as the body of the PATCH: any of the
\* fields of an assignment, the walk_id among them.
PatchBodies ==
    {[f \in keys |-> IF f = "walk_id" THEN w ELSE "v"] :
        keys \in SUBSET AssignmentFields, w \in WalkIds}

\* Faulty variant of AssignmentUpdate: keys the model does not declare are kept.
AssignmentUpdate_extra_allowed(body) ==
    [fields |-> [f \in AssignmentUpdateFields \cup DOMAIN body |->
                    IF f \in DOMAIN body THEN body[f] ELSE "None"],
     set |-> DOMAIN body]

\* AssignmentUpdate(**body): the declared fields of the body are set, the
\* others default to None, and a key that is not declared is ignored.
AssignmentUpdate(body) ==
    [fields |-> [f \in AssignmentUpdateFields |-> IF f \in DOMAIN body THEN body[f] ELSE "None"],
     set |-> DOMAIN body \cap AssignmentUpdateFields]

\* The stored assignment; of its fields the store of the model keeps the walk_id.
StoredAssignment(a) ==
    [f \in AssignmentFields |-> IF f = "walk_id" THEN assignments[a] ELSE "None"]

\* PATCH /assignments/{assignment_id}: the body is read as an AssignmentUpdate,
\* the client sends its model_dump(exclude_unset=True), and the service merges
\* what it receives into the stored assignment.
update_assignment(a, body) ==
    /\ get_client
    /\ ~is_closed
    /\ LET sent == model_dump_exclude_unset(AssignmentUpdate(body))
       IN  \E st \in Answers(RemoteUpdateAssignment(a)) :
              /\ req' = [Delegated(Enter("update_assignment", 0, a, FALSE), ClientUpdate(st), st)
                            EXCEPT !.payload = body, !.sent = sent]
              /\ assignments' = IF st = 200
                                THEN Put(assignments, a, Merge(StoredAssignment(a), sent)["walk_id"])
                                ELSE assignments
    /\ issued' = First("update_assignment", a)
    /\ disturbed' = FALSE
    /\ futures' = <<>>
    /\ UNCHANGED <<users_db, atomic_client, users, walks, events>>

\* GET /events
list_events ==
    /\ get_client
    /\ ~is_closed
    /\ \E st \in Answers(RemoteList) :
          req' = Delegated(Enter("list_events", 0, 0, FALSE), ClientList(st), st)
    /\ issued' = First("list_events", 0)
    /\ disturbed' = FALSE
    /\ futures' = <<>>
    /\ UNCHANGED <<users_db, atomic_client, users, walks, assignments, events>>

\* The endpoints declared with client = Depends(get_client).
Endpoints ==
    {"create_walk", "list_walks", "get_walk", "update_walk", "delete_walk",
     "create_assignment", "list_assignments", "get_assignment", "update_assignment",
     "delete_assignment", "create_event", "list_events", "get_event", "delete_event",
     "get_walk_complete", "assign_walker_to_walk", "create_walk_event",
     "delete_walk_cascade"}

\* The module is imported: atomic_client is None until lifespan has run.
InitLifespan ==
    /\ walks = {}
    /\ assignments = NoEntities
    /\ events = NoEntities
    /\ users = {}
    /\ users_db = NoEntities
    /\ atomic_client = "None"
    /\ req = Idle
    /\ futures = <<>>
    /\ issued = <<>>
    /\ disturbed = FALSE

NextLifespan ==
    \/ lifespan
    \/ \E op \in Endpoints : get_client_raises(op)
    \/ lifespan_shutdown
    \/ \E op \in Endpoints : get_client_closed(op)
    \/ list_walks
    \/ \E w \in WalkIds : update_walk(w)
    \/ list_assignments
    \/ \E a \in AssignmentIds, body \in PatchBodies : update_assignment(a, body)
    \/ list_events
    \/ Next

SpecLifespan == InitLifespan /\ [][NextLifespan]_vars

\* ======================================================= the user service
MaxUserUuids == 2

\* The values of a text field of a user: None or a string.
FieldValues == {"None", "a", "b"}

\* name, user_type and city of UserBase (email and phone are alike).
UserFields == {"name", "user_type", "city"}

\* A UUID, as UserCreate.id and the path parameter user_id hold it.
Uuid(n) == [type |-> "UUID", n |-> n]

UserUuids == {Uuid(n) : n \in 1..MaxUserUuids}

\* UserCreate: the id (given, or drawn by uuid4) and the fields of UserBase.
UserCreates == [id : UserUuids, fields : [UserFields -> FieldValues]]

\* UserUpdate: every field defaults to None; set tells which the caller gave.
UserUpdates ==
    {u \in [fields : [UserFields -> FieldValues], set : SUBSET UserFields] :
        \A f \in UserFields : f \notin u.set => u.fields[f] = "None"}

\* model_dump() of a UserCreate: the id as the UUID it is, and every field.
model_dump(user) == [f \in UserFields \cup {"id"} |-> IF f = "id" THEN user.id ELSE user.fields[f]]

\* UserUpdate(**body): the fields of the body are set, the others default.
UserUpdate(body) ==
    [fields |-> [f \in UserFields |-> IF f \in DOMAIN body THEN body[f] ELSE "None"],
     set |-> DOMAIN body \cap UserFields]

\* UserRead.id: Optional[Union[int, str]]. An int, a str or None validates; a
\* UUID object is neither and raises ValidationError.
UserReadValidates(data) == data["id"].type \in {"int", "str", "None"}

\* Faulty variant of create_user_outcome: the id is not validated.
create_user_outcome_unvalidated(data) == 201

\* UserRead(**user.model_dump()) in create_user: the user is built and stored,
\* or ValidationError leaves the handler as a 500.
create_user_outcome(data) == IF UserReadValidates(data) THEN 201 ELSE 500

\* A request to the user service ends.
UserResponse(op, id, payload, stored, status, detail, returned) ==
    [Respond([Idle EXCEPT !.op = op, !.user_id = id, !.payload = payload,
                           !.stored = stored], status, detail, NoBody)
        EXCEPT !.returned = returned]

\* The stored user, or <<>> when there is none.
StoredUser(id) == IF id \in DOMAIN users_db THEN users_db[id] ELSE <<>>

UserFrame == UNCHANGED <<atomic_client, users, walks, assignments, events, futures,
                         issued, disturbed>>

\* POST /users
create_user(user) ==
    /\ Free
    /\ LET data == model_dump(user)
           st == IF user.id \in DOMAIN users_db THEN 400 ELSE create_user_outcome(data)
       IN  /\ users_db' = IF st = 201 THEN Put(users_db, user.id, data) ELSE users_db
           /\ req' = UserResponse("create_user", user.id, user, StoredUser(user.id), st,
                                  CASE st = 400 -> <<"User already exists">>
                                    [] st = 500 -> <<"ValidationError">>
                                    [] OTHER -> <<>>,
                                  IF st = 201 THEN data ELSE <<>>)
    /\ UserFrame

\* GET /users/{user_id}
get_user(user_id) ==
    /\ Free
    /\ req' = IF user_id \notin DOMAIN users_db
              THEN UserResponse("get_user", user_id, <<>>, <<>>, 404, <<"User not found">>, <<>>)
              ELSE UserResponse("get_user", user_id, <<>>, users_db[user_id], 200, <<>>,
                                users_db[user_id])
    /\ users_db' = users_db
    /\ UserFrame

\* PATCH /users/{user_id}
update_user(user_id, update) ==
    /\ Free
    /\ IF user_id \notin DOMAIN users_db
       THEN /\ req' = UserResponse("update_user", user_id, update, <<>>, 404,
                                   <<"User not found">>, <<>>)
            /\ users_db' = users_db
       ELSE LET stored == Merge(users_db[user_id], model_dump_exclude_unset(update))
            IN  /\ users_db' = [users_db EXCEPT ![user_id] = stored]
                /\ req' = UserResponse("update_user", user_id, update, users_db[user_id],
                                       200, <<>>, stored)
    /\ UserFrame

\* DELETE /users/{user_id}
delete_user(user_id) ==
    /\ Free
    /\ IF user_id \notin DOMAIN users_db
       THEN /\ req' = UserResponse("delete_user", user_id, <<>>, <<>>, 404,
                                   <<"User not found">>, <<>>)
            /\ users_db' = users_db
       ELSE /\ req' = UserResponse("delete_user", user_id, <<>>, users_db[user_id], 204,
                                   <<>>, <<>>)
            /\ users_db' = Drop(users_db, user_id)
    /\ UserFrame

\* The module is imported: users = {}.
InitUser == Init

NextUser ==
    \/ \E user \in UserCreates : create_user(user)
    \/ \E user_id \in UserUuids : get_user(user_id)
    \/ \E user_id \in UserUuids, update \in UserUpdates : update_user(user_id, update)
    \/ \E user_id \in UserUuids : delete_user(user_id)
    \/ Deliver

SpecUser == InitUser /\ [][NextUser]_vars

\* ------------------------------------------------------ the partial update
\* A user as the store holds it: UserRead, whose id is an int or a str.
StoredUsers ==
    {[f \in UserFields \cup {"id"} |-> IF f = "id" THEN [type |-> "int", n |-> n] ELSE fields[f]] :
        n \in 1..MaxUserUuids, fields \in [UserFields -> FieldValues]}

\* A client's update method sends update.model_dump(exclude_unset=True) as the
\* body of its PATCH; the service reads the body as its update model and
\* merges what was set into the model_dump() of the stored entity.
client_update_merge(stored, update) ==
    /\ Free
    /\ LET sent == model_dump_exclude_unset(update)
           merged == Merge(stored, model_dump_exclude_unset(UserUpdate(sent)))
       IN  req' = [UserResponse("update", stored["id"], update, stored, 200, <<>>, merged)
                      EXCEPT !.sent = sent]
    /\ users_db' = users_db
    /\ UserFrame

NextUpdate ==
    \/ \E stored \in StoredUsers, update \in UserUpdates : client_update_merge(stored, update)
    \/ Deliver

SpecUpdate == Init /\ [][NextUpdate]_vars

\* ============================================================ the clients
\* response.status_code: the statuses a service may answer a call with.
Statuses == {200, 201, 204, 301, 400, 401, 403, 404, 409, 422, 429, 500, 502, 503, 504}

DeleteMethods ==
    {"AtomicServiceClient.delete_walk", "AtomicServiceClient.delete_assignment",
     "AtomicServiceClient.delete_event", "WalkServiceClient.delete_walk",
     "ReviewServiceClient.delete_review"}

GetMethods ==
    {"AtomicServiceClient.get_walk", "AtomicServiceClient.get_assignment",
     "AtomicServiceClient.get_event", "WalkServiceClient.get_walk",
     "ReviewServiceClient.get_review", "UserServiceClient.get_user"}

CreateMethods ==
    {"AtomicServiceClient.create_walk", "AtomicServiceClient.create_assignment",
     "AtomicServiceClient.create_event", "WalkServiceClient.create_walk",
     "ReviewServiceClient.create_review"}

ListMethods ==
    {"AtomicServiceClient.list_walks", "AtomicServiceClient.list_assignments",
     "AtomicServiceClient.list_events", "WalkServiceClient.list_walks",
     "ReviewServiceClient.list_reviews", "UserServiceClient.list_users"}

UpdateMethods ==
    {"AtomicServiceClient.update_walk", "AtomicServiceClient.update_assignment",
     "WalkServiceClient.update_walk", "ReviewServiceClient.update_review"}

DogsMethods == {"UserServiceClient.get_user_dogs"}

\* response.text: the bodies a service may answer with.
Texts == {"", "detail"}

\* A client method ends: it returns its outcome or raises
\* HTTPException(status_code=response.status_code, detail=response.text).
ClientOutcome(method, st, text, outcome) ==
    LET r == [Enter(method, 0, 0, FALSE) EXCEPT !.response = st, !.text = text]
    IN  IF outcome = "raise"
        THEN [Upstream(r, st) EXCEPT !.exc_text = text]
        ELSE Return(r, outcome, NoBody)

\* A client method is called and the service answers with st and text.
client_call(method, st, text, outcome) ==
    /\ Free
    /\ req' = ClientOutcome(method, st, text, outcome)
    /\ issued' = First(method, 0)
    /\ futures' = <<>>
    /\ disturbed' = FALSE
    /\ UNCHANGED <<users_db, atomic_client, users, walks, assignments, events>>

client_create(method, st, text) == client_call(method, st, text, ClientCreate(st))

client_list(method, st, text) == client_call(method, st, text, ClientList(st))

client_update(method, st, text) == client_call(method, st, text, ClientUpdate(st))

get_user_dogs(method, st, text) == client_call(method, st, text, ClientDogs(st))

\* A delete method of a client is called and the service answers with st.
client_delete(method, st, text) == client_call(method, st, text, ClientDelete(st))

\* A get method of a client is called and the service answers with st.
client_get(method, st, text) == client_call(method, st, text, ClientGet(st))

NextClient ==
    \/ \E method \in DeleteMethods, st \in Statuses, text \in Texts :
            client_delete(method, st, text)
    \/ \E method \in GetMethods, st \in Statuses, text \in Texts :
            client_get(method, st, text)
    \/ \E method \in CreateMethods, st \in Statuses, text \in Texts :
            client_create(method, st, text)
    \/ \E method \in ListMethods, st \in Statuses, text \in Texts :
            client_list(method, st, text)
    \/ \E method \in UpdateMethods, st \in Statuses, text \in Texts :
            client_update(method, st, text)
    \/ \E method \in DogsMethods, st \in Statuses, text \in Texts :
            get_user_dogs(method, st, text)
    \/ Deliver

SpecClient == Init /\ [][NextClient]_vars

\* ------------------------------------------------------------ properties
Done == req.pc = "done"

\* Every call of the finished request was answered within its contract.
Contract == req.status \notin UnexpectedStatus

AssignmentCreates == {"create_assignment", "assign_walker_to_walk"}

EventCreates == {"create_event", "create_walk_event"}

CreateOps == AssignmentCreates \cup EventCreates

Cascade == req.op = "delete_walk_cascade"

CreateCalls == {i \in DOMAIN issued : issued[i].call \in {"create_assignment", "create_event"}}

DeleteCalls ==
    {i \in DOMAIN issued : issued[i].call \in {"delete_walk", "delete_assignment", "delete_event"}}

\* The kinds of dependents the walk w has in the store.
Kinds(w) ==
    (IF RemoteListAssignments(w) # <<>> THEN <<"assignments">> ELSE <<>>)
        \o (IF RemoteListEvents(w) # <<>> THEN <<"events">> ELSE <<>>)

\* The futures whose deletion raised an upstream error.
Raised == {i \in DOMAIN futures : futures[i].result = "raise"}

\* The futures whose deletion returned True.
Succeeded == {i \in DOMAIN futures : futures[i].result = "true"}

\* The cascade has listed the dependents and entered its executor block.
FannedOut == Cascade /\ req.join # "none"

\* C1: a create-dependent request whose walk is absent when its existence check
\* is answered fails with the 400 constraint violation (an upstream error of the
\* check apart), never issues a create, and its step leaves the store as it was.
C1_AbsentWalkRejected ==
    /\ [](req.op \in CreateOps /\ ~req.existed =>
            /\ Done
            /\ CreateCalls = {}
            /\ issued = <<Call("get_walk", req.walk_id)>>
            /\ Contract =>
                  /\ req.status = 400
                  /\ req.detail = <<"fk", IF req.op \in AssignmentCreates
                                          THEN "assignment" ELSE "event">>)
    /\ [][req.pc = "idle" /\ req'.op \in CreateOps /\ ~req'.existed =>
            walks' = walks /\ assignments' = assignments /\ events' = events]_vars

C1_Witness ==
    /\ Done
    /\ req.op = "create_walk_event"
    /\ ~req.existed
    /\ req.status = 400

\* C2: cascade-delete without force that finds dependents answers 400 naming
\* exactly the kinds found and issues no delete; undisturbed, a walk with
\* dependents never passes the check, the kinds named are those in the store,
\* and the walk is still stored; no step up to the conflict changes the store.
C2_ConflictWithoutForce ==
    /\ [](Cascade /\ ~req.force /\ req.has_deps =>
            /\ Done
            /\ req.status = 400
            /\ req.detail = <<"dependencies">> \o req.dep_types
            /\ DeleteCalls = {})
    /\ [](Cascade /\ ~req.force /\ ~disturbed /\ req.pc = "list_assignments" =>
            Kinds(req.walk_id) = <<>>)
    /\ [](Cascade /\ ~req.force /\ ~disturbed /\ Done /\ req.status = 400 =>
            /\ req.detail = <<"dependencies">> \o Kinds(req.walk_id)
            /\ Kinds(req.walk_id) # <<>>
            /\ req.walk_id \in walks)
    /\ [][/\ req' # req
          /\ req'.op = "delete_walk_cascade"
          /\ ~req'.force
          /\ req'.has_deps \/ req'.pc \in {"dependencies", "dependencies_events"}
          => walks' = walks /\ assignments' = assignments /\ events' = events]_vars

C2_Witness ==
    /\ Cascade
    /\ Done
    /\ ~req.force
    /\ req.status = 400
    /\ req.detail = <<"dependencies", "assignments", "events">>

\* Each submitted deletion was issued exactly once.
EveryDeletionIssued ==
    /\ Len(futures) = Len(req.assignments) + Len(req.events)
    /\ \A i \in DOMAIN futures :
          Cardinality({j \in DOMAIN issued : issued[j] = CallOf(futures[i])}) = 1

WalkDeleteFailed == Issued("delete_walk", req.walk_id) = 1 /\ ~Contract

C5_WalkDeletedLast ==
    Cascade /\ (req.pc = "delete_walk" \/ Issued("delete_walk", req.walk_id) > 0) =>
        /\ AllDone
        /\ Len(futures) = Len(req.assignments) + Len(req.events)

C5_Witness ==
    /\ Cascade
    /\ Issued("delete_walk", req.walk_id) = 1
    /\ Len(futures) = 2

\* C6 as stated: a step that deletes a walk that has dependents belongs to a
\* cascade-delete with force.
C6_DependentsNeedForce ==
    [][\A w \in walks \ walks' : Kinds(w) # <<>> => Cascade /\ req.force]_vars

\* C6 amended: no step of a cascade-delete without force that no other client's
\* write has disturbed deletes a walk that has dependents or deletes a dependent;
\* the plain DELETE of a walk is not covered (it deletes whatever depends on it).
C6_CascadeWithoutForceKeepsParent ==
    [][Cascade /\ ~req.force /\ ~disturbed' =>
          /\ assignments' = assignments
          /\ events' = events
          /\ \A w \in walks \ walks' : Kinds(w) = <<>>]_vars

C6_Witness ==
    /\ Cascade
    /\ Done
    /\ ~req.force
    /\ ~disturbed
    /\ req.status = 400
    /\ req.detail = <<"dependencies", "events">>
    /\ req.walk_id \in walks

AggregateReads == {"get_walk_complete", "get_walk_with_reviews", "get_user_complete"}

\* The calls an aggregate read fans out to fetch what belongs to its parent.
FanOutCalls ==
    {i \in DOMAIN issued :
        issued[i].call \in {"list_assignments", "list_events", "list_reviews_walkId",
                            "list_reviews_ownerId", "list_reviews_walkerId",
                            "get_user_dogs"}}

\* The finished aggregate read answered not-found: 404 from the endpoint, None
\* from a function of the service layer.
NotFoundOutcome ==
    IF req.op = "get_walk_complete" THEN req.status = 404
    ELSE req.status = 0 /\ req.detail = <<"return", "None">>

\* C7 as stated: an aggregate read whose parent does not exist issues none of
\* its fan-out calls and answers not-found.
C7_NoFanOutForMissingParent ==
    req.op \in AggregateReads /\ ~req.existed =>
        /\ FanOutCalls = {}
        /\ Done /\ Contract => NotFoundOutcome

\* C7 amended: get_walk_complete and get_walk_with_reviews on a walk that does
\* not exist answer not-found after the one get_walk and issue no fan-out call;
\* get_user_complete on a user that does not exist answers not-found (upstream
\* errors apart) only after its fan-out: by then it has asked for the user, for
\* the dogs and for the reviews as owner.
C7_NoFanOutForMissingWalk ==
    /\ req.op \in {"get_walk_complete", "get_walk_with_reviews"} /\ ~req.existed =>
          /\ Done
          /\ issued = <<Call("get_walk", req.walk_id)>>
          /\ FanOutCalls = {}
          /\ Contract => NotFoundOutcome
    /\ req.op = "get_user_complete" /\ ~req.existed /\ Done =>
          /\ Contract => NotFoundOutcome
          /\ Issued("get_user", extract_numeric_id(req.user_id)) = 1
          /\ Issued("get_user_dogs", extract_numeric_id(req.user_id)) = 1
          /\ Issued("list_reviews_ownerId", req.user_id) = 1

C7_Witness ==
    /\ req.op = "get_user_complete"
    /\ Done
    /\ ~req.existed
    /\ NotFoundOutcome
    /\ Issued("list_reviews_walkerId", req.user_id) = 1

\* C8: get_walk_complete on an existing walk returns the assignments and the
\* events the two listings give, and counts that are the lengths of what it
\* returns.
C8_CompleteMatchesListings ==
    req.op = "get_walk_complete" /\ Done /\ req.existed /\ Contract =>
        /\ req.status = 200
        /\ req.body.assignments = RemoteListAssignments(req.walk_id)
        /\ req.body.events = RemoteListEvents(req.walk_id)
        /\ req.body.assignment_count = Len(req.body.assignments)
        /\ req.body.event_count = Len(req.body.events)

C8_Witness ==
    /\ req.op = "get_walk_complete"
    /\ Done
    /\ req.status = 200
    /\ req.body.assignment_count = 1
    /\ req.body.event_count = 1

\* What a GET of the entity the finished create returned answers now.
GetCreated ==
    IF req.op \in AssignmentCreates
    THEN get_assignment_response(Enter("get_assignment", 0, req.id, FALSE), req.id,
                                 RemoteGetAssignment(req.id))
    ELSE get_event_response(Enter("get_event", 0, req.id, FALSE), req.id,
                            RemoteGetEvent(req.id))

\* The entity of the finished create is stored under its id for its walk.
CreatedStored ==
    IF req.op \in AssignmentCreates
    THEN req.id \in DOMAIN assignments /\ assignments[req.id] = req.walk_id
    ELSE req.id \in DOMAIN events /\ events[req.id] = req.walk_id

\* C9: a create-dependent request whose walk exists when checked returns 201
\* with the created entity (upstream errors apart), and unless another client
\* deleted it a GET by its id returns that entity.
C9_CreatedAndRetrievable ==
    req.op \in CreateOps /\ Done /\ req.existed /\ Contract =>
        /\ req.status = 201
        /\ req.body = Entity(IF req.op \in AssignmentCreates THEN "assignment" ELSE "event",
                             req.id, req.walk_id)
        /\ ~disturbed =>
              /\ CreatedStored
              /\ GetCreated.status = 200
              /\ GetCreated.body = req.body

C9_Witness ==
    /\ req.op = "assign_walker_to_walk"
    /\ Done
    /\ req.status = 201
    /\ CreatedStored

\* The checks validate_review_foreign_keys makes when none fails, in order.
ReviewChecks ==
    <<Call("get_walk", req.walk_id), Call("get_user", extract_numeric_id(req.owner_id)),
      Call("get_user", extract_numeric_id(req.walker_id))>>

\* The user the id names is stored by the User service.
UserStored(user_id) == RemoteGetUser(extract_numeric_id(user_id)) = 200

\* C10: validate_review_foreign_keys checks the walk, the owner and the walker
\* in that order; at the first one absent it raises the 400 that names it and
\* makes no further check; it returns normally only when all three exist.
C10_ReviewChecksInOrder ==
    req.op = "validate_review_foreign_keys" =>
        /\ Len(issued) <= 3
        /\ issued = SubSeq(ReviewChecks, 1, Len(issued))
        /\ Done /\ Contract =>
              CASE ~req.wellformed ->
                     req.status = 400 /\ req.detail = <<"invalid_walk_id">> /\ issued = <<>>
                [] req.walk_id \notin walks ->
                     req.status = 400 /\ req.detail = <<"fk", "walk">> /\ Len(issued) = 1
                [] ~UserStored(req.owner_id) ->
                     req.status = 400 /\ req.detail = <<"fk", "owner">> /\ Len(issued) = 2
                [] ~UserStored(req.walker_id) ->
                     req.status = 400 /\ req.detail = <<"fk", "walker">> /\ Len(issued) = 3
                [] OTHER ->
                     req.status = 0 /\ req.detail = <<"return", "None">> /\ Len(issued) = 3

C10_Witness ==
    /\ req.op = "validate_review_foreign_keys"
    /\ Done
    /\ req.status = 400
    /\ req.detail = <<"fk", "walker">>
    /\ req.owner_id.form = "padded"
    /\ Len(issued) = 3

\* get_walk_complete has submitted its two fetches.
CompleteFannedOut == req.op = "get_walk_complete" /\ req.join # "none"

\* The failure get_walk_complete meets first: results are taken in the order
\* assignments, events.
FirstRaised == CHOOSE i \in Raised : \A j \in Raised : i <= j

\* C11: get_walk_complete answers (response or error) only when both of its
\* fetches have finished; when a fetch failed the caller gets that failure,
\* and the other fetch has run to completion all the same.
C11_AllOrWait ==
    CompleteFannedOut /\ Done =>
        /\ Len(futures) = 2
        /\ AllDone
        /\ \A i \in DOMAIN futures :
              /\ futures[i].result \in {"entities", "raise"}
              /\ Issued(CallOf(futures[i]).call, req.walk_id) = 1
        /\ IF Raised = {} THEN req.status = 200
           ELSE req.status = futures[FirstRaised].status /\ req.body = NoBody

C11_Witness ==
    /\ CompleteFannedOut
    /\ Done
    /\ futures[1].result = "raise"
    /\ futures[2].result = "entities"
    /\ req.status \in UnexpectedStatus

\* C12 as stated: once a fetch of get_walk_complete has failed the operation can
\* fail at once: some step of the handler is possible without any sibling
\* fetch having to finish first.
C12_FailsAsSoonAsWorkerFails ==
    CompleteFannedOut /\ req.pc = "fanout" /\ Raised # {} =>
        ENABLED (result_assignments \/ result_events \/ get_walk_complete_return)

\* C12 amended: when a fetch of get_walk_complete fails, the operation fails
\* only once every started fetch has finished: while one is unfinished and all
\* results are taken the handler cannot return, and no sibling is cancelled.
C12_FailsAfterSiblingsFinish ==
    /\ CompleteFannedOut /\ req.pc = "fanout" /\ ~AllDone =>
          ~ENABLED get_walk_complete_return
    /\ CompleteFannedOut /\ Raised # {} =>
          /\ \A i \in DOMAIN futures : futures[i].result # "cancelled"
          /\ Done => \A i \in DOMAIN futures :
                        futures[i].st = "done" /\ futures[i].result \in {"entities", "raise"}

C12_Witness ==
    /\ CompleteFannedOut
    /\ req.pc = "fanout"
    /\ req.exc # 0
    /\ futures[1].result = "raise"
    /\ futures[2].st = "running"

\* C13: the remote calls in flight inside one fan-out never exceed the pool of
\* the call site, 2 for get_walk_complete and 4 for cascade-delete, however
\* many dependents there are; a deletion beyond that starts only when a worker
\* is free.
C13_InFlightBounded ==
    /\ req.op = "get_walk_complete" => Cardinality(Running) <= 2
    /\ Cascade => Cardinality(Running) <= 4
    /\ Cascade /\ Cardinality(Running) = 4 => ~ENABLED StartWorker
    /\ Cascade /\ req.pc = "fanout" /\ Queued # {} /\ Cardinality(Running) < 4 =>
          ENABLED StartWorker

C13_Witness ==
    /\ Cascade
    /\ Len(futures) = 5
    /\ Cardinality(Running) = 4
    /\ Cardinality(Queued) = 1

\* The deletions as_completed has handed to the loop and that returned True.
SeenSucceeded == {i \in DOMAIN futures : futures[i].seen /\ futures[i].result = "true"}

\* C14: what a fan-out returns does not depend on the order in which its
\* workers complete: get_walk_complete takes 'assignments' from the assignment
\* fetch and 'events' from the event fetch whichever finished first, and the
\* count of cascade-delete is at every moment the number of successful
\* deletions among those completed, whatever their order.
C14_CompletionOrderIrrelevant ==
    /\ CompleteFannedOut /\ Done /\ req.status = 200 =>
          /\ futures[1].fn = "fetch_assignments"
          /\ futures[2].fn = "fetch_events"
          /\ req.body.assignments = futures[1].value
          /\ req.body.events = futures[2].value
    /\ FannedOut => req.deleted_count = Cardinality(SeenSucceeded)
    /\ FannedOut /\ Done /\ req.status = 200 =>
          req.body.deleted_count = Cardinality(Succeeded)

C14_Witness ==
    /\ FannedOut
    /\ req.pc = "fanout"
    /\ Len(futures) >= 3
    /\ futures[1].st = "running"
    /\ futures[2].result = "false"
    /\ futures[3].seen
    /\ futures[3].result = "true"
    /\ req.deleted_count = 1

\* The submitted deletions of one kind.
DeletionsOf(fn) == {i \in DOMAIN futures : futures[i].fn = fn}

\* C15: the summary of cascade-delete reports for each kind the number it
\* listed and as total the number of dependent deletions that returned True:
\* never more than assignments plus events, and as many when all succeeded.
C15_SummaryCounts ==
    FannedOut /\ Done /\ req.status = 200 =>
        /\ req.body.assignment_count = Len(req.assignments)
        /\ req.body.assignment_count = Cardinality(DeletionsOf("delete_assignment"))
        /\ req.body.event_count = Len(req.events)
        /\ req.body.event_count = Cardinality(DeletionsOf("delete_event"))
        /\ req.body.deleted_count = Cardinality(Succeeded)
        /\ req.body.deleted_count <= req.body.assignment_count + req.body.event_count
        /\ (\A i \in DOMAIN futures : futures[i].result = "true") =>
              req.body.deleted_count = req.body.assignment_count + req.body.event_count
        /\ req.body.walk_id = req.walk_id

C15_Witness ==
    /\ FannedOut
    /\ Done
    /\ req.status = 200
    /\ req.body.assignment_count = 2
    /\ req.body.event_count = 1
    /\ req.body.deleted_count = 3

\* C16: cascade-delete without force on an existing walk that has no assignment
\* and no event deletes the walk and returns 200 with both counts 0 and no
\* related record deleted (no other client writing meanwhile, upstream errors
\* apart).
C16_NoDependentsDeletesWalk ==
    Cascade /\ ~req.force /\ req.existed /\ ~disturbed /\ Done /\ Contract
            /\ Kinds(req.walk_id) = <<>> =>
        /\ req.status = 200
        /\ req.walk_id \notin walks
        /\ Issued("delete_walk", req.walk_id) = 1
        /\ futures = <<>>
        /\ req.body.assignment_count = 0
        /\ req.body.event_count = 0
        /\ req.body.deleted_count = 0

C16_Witness ==
    /\ Cascade
    /\ ~req.force
    /\ req.existed
    /\ ~disturbed
    /\ Done
    /\ req.status = 200
    /\ walks # {}

\* C17: cascade-delete on a walk that does not exist answers 404, with force
\* and without, after its single get_walk: no listing, no delete.
C17_MissingWalkNotFound ==
    Cascade /\ ~req.existed =>
        /\ Done
        /\ issued = <<Call("get_walk", req.walk_id)>>
        /\ DeleteCalls = {}
        /\ futures = <<>>
        /\ Contract => req.status = 404 /\ req.detail = <<"not_found", "walk">>

C17_Witness ==
    /\ Cascade
    /\ req.force
    /\ ~req.existed
    /\ req.status = 404
    /\ walks # {}

\* validate_walk_has_no_dependencies has returned to delete_walk_cascade.
DependenciesReturned ==
    /\ Cascade
    /\ \/ req.pc \in {"list_assignments", "list_events", "fanout", "delete_walk"}
       \/ Done /\ req.status = 400
       \/ Done /\ req.join # "none"

\* C18: validate_walk_has_no_dependencies returns the kinds found, 'assignments'
\* before 'events', each iff its listing for the walk is not empty, and has is
\* true iff a kind was found.
C18_DependencyKinds ==
    /\ DependenciesReturned =>
          /\ req.dep_types \in {<<>>, <<"assignments">>, <<"events">>,
                                <<"assignments", "events">>}
          /\ req.has_deps = (req.dep_types # <<>>)
    /\ DependenciesReturned /\ ~disturbed /\ (req.pc = "list_assignments" \/ req.status = 400) =>
          req.dep_types = Kinds(req.walk_id)

C18_Witness ==
    /\ Cascade
    /\ req.force
    /\ ~disturbed
    /\ req.pc = "list_assignments"
    /\ req.has_deps
    /\ req.dep_types = <<"events">>

\* C19: every delete method of a client returns True for 204 and False for 404
\* and raises the upstream error, with the status it got, for every other
\* status: not-found is never raised.
C19_DeleteStatusMapping ==
    req.op \in DeleteMethods /\ Done =>
        CASE req.response = 204 -> req.detail = <<"return", "true">>
          [] req.response = 404 -> req.detail = <<"return", "false">>
          [] OTHER -> req.detail = <<"upstream">> /\ req.status = req.response

C19_Witness ==
    /\ req.op = "ReviewServiceClient.delete_review"
    /\ Done
    /\ req.response = 404
    /\ req.detail = <<"return", "false">>

\* C20: every get method of a client returns the entity for 200 and None for
\* 404 and raises the upstream error for every other status: None is never the
\* outcome of a failure and a failure never reads as None.
C20_GetStatusMapping ==
    req.op \in GetMethods /\ Done =>
        /\ CASE req.response = 200 -> req.detail = <<"return", "entity">>
             [] req.response = 404 -> req.detail = <<"return", "none">>
             [] OTHER -> req.detail = <<"upstream">> /\ req.status = req.response
        /\ req.detail = <<"return", "none">> <=> req.response = 404

C20_Witness ==
    /\ req.op = "UserServiceClient.get_user"
    /\ Done
    /\ req.response = 503
    /\ req.detail = <<"upstream">>
    /\ req.status = 503

\* ---------------------------------------------------------------- C21
ClientMethods ==
    CreateMethods \cup GetMethods \cup ListMethods \cup UpdateMethods
        \cup DeleteMethods \cup DogsMethods

\* The status a method is designed to succeed on.
SuccessStatus(method) ==
    IF method \in CreateMethods THEN 201
    ELSE IF method \in DeleteMethods THEN 204 ELSE 200

\* The get and delete methods, which handle 404 themselves.
Handles404(method) == method \in GetMethods \cup DeleteMethods \cup DogsMethods

C22_UninitializedIs503 ==
    atomic_client = "None" /\ ~Free =>
        /\ Done
        /\ req.op \in Endpoints
        /\ req.status = 503
        /\ issued = <<>>
        /\ futures = <<>>

C22_Witness ==
    /\ atomic_client = "None"
    /\ Done
    /\ req.op = "delete_walk_cascade"
    /\ req.status = 503
    /\ issued = <<>>

\* ---------------------------------------------------------------- C23
\* C23: the existence check of a create-dependent request is point-in-time. A
\* create succeeds only after its check saw the walk; when the walk has been
\* deleted between the check and the create call, the create is still sent and,
\* answered within contract, succeeds and stores an entity whose walk is gone.
C23_CheckIsPointInTime ==
    /\ [](req.op \in CreateOps /\ Done /\ req.status = 201 =>
            /\ req.existed
            /\ req.walk_id \notin walks => disturbed)
    /\ [][/\ req.op \in CreateOps
          /\ req.pc = "validated"
          /\ req.walk_id \notin walks
          /\ req'.pc = "done"
          /\ req'.status \notin UnexpectedStatus
          => /\ req'.status = 201
             /\ CreatedStored'
             /\ req.walk_id \notin walks']_vars

C23_Witness ==
    /\ req.op = "create_event"
    /\ Done
    /\ req.status = 201
    /\ req.existed
    /\ req.walk_id \notin walks
    /\ req.id \in DOMAIN events
    /\ events[req.id] = req.walk_id

\* ---------------------------------------------------------------- C24
\* C24: every create-dependent request begins with its own read of the walk and
\* sends its create right after it; the outcome of the check follows the store
\* as it is when the request is made, whatever earlier requests saw: a walk
\* that is not stored gives the 400 constraint violation, a stored walk passes
\* (an upstream error of the read apart).
C24_FreshExistenceRead ==
    /\ [](req.op \in CreateOps /\ ~Free =>
            /\ issued[1] = Call("get_walk", req.walk_id)
            /\ \A i \in DOMAIN issued : i > 1 => i = 2 /\ i \in CreateCalls)
    /\ [][Free /\ req'.op \in CreateOps =>
            \/ req'.pc = "done" /\ req'.status \in UnexpectedStatus
            \/ IF req'.walk_id \in walks
               THEN req'.pc = "validated"
               ELSE req'.pc = "done" /\ req'.status = 400]_vars

\* The walk of a stored assignment has been deleted, and a later create of an
\* event for it is refused.
C24_Witness ==
    /\ req.op = "create_event"
    /\ Done
    /\ req.status = 400
    /\ req.walk_id \notin walks
    /\ \E a \in DOMAIN assignments : assignments[a] = req.walk_id

\* ---------------------------------------------------------------- C25
\* The calls that read the dependents of a walk.
Listings == {"list_assignments", "list_events"}

\* C25: a request sends no call twice, the two listings of cascade-delete (one
\* by the dependency check, one by the handler) apart: each existence check,
\* create, dependent delete and parent delete is sent at most once; a worker
\* whose call failed has sent it once, and the failure is what the caller gets.
C25_NoCallReissued ==
    /\ \A i, j \in DOMAIN issued :
          i < j /\ issued[i] = issued[j] =>
              /\ Cascade
              /\ issued[i].call \in Listings
              /\ Issued(issued[i].call, issued[i].id) = 2
    /\ \A i \in Raised :
          /\ Issued(CallOf(futures[i]).call, CallOf(futures[i]).id) = 1
          /\ Done => req.status \in {futures[k].status : k \in Raised}

C25_Witness ==
    /\ Cascade
    /\ Done
    /\ \E i \in Raised :
          /\ futures[i].fn = "delete_event"
          /\ Issued("delete_event", futures[i].id) = 1
          /\ req.status = futures[i].status
    /\ Issued("get_walk", req.walk_id) = 1
    /\ Issued("delete_walk", req.walk_id) = 0

\* ---------------------------------------------------------------- C26
\* The constrained create a helper stands for.
BaseOf(op) ==
    CASE op = "assign_walker_to_walk" -> "create_assignment"
      [] op = "create_walk_event" -> "create_event"
      [] OTHER -> op

HelperOf(op) ==
    CASE op = "create_assignment" -> "assign_walker_to_walk"
      [] op = "create_event" -> "create_walk_event"
      [] OTHER -> op

FkMessage(op) == <<"fk", IF op \in AssignmentCreates THEN "assignment" ELSE "event">>

FreshId(r) ==
    IF r.op \in AssignmentCreates THEN r.id \notin DOMAIN assignments
    ELSE r.id \notin DOMAIN events

\* The request r, just past its existence check, is what the handler named op
\* gives for the same walk, id and answer of the read.
ChecksLike(r, op) ==
    \E st \in Answers(RemoteGetWalk(r.walk_id)) :
        [r EXCEPT !.op = op] =
            [validate_walk_exists(EnterCheck(op, r.walk_id, r.id, st), st, FkMessage(op))
                EXCEPT !.existed = (r.walk_id \in walks)]

\* The finished request r2 is what the handler named op gives when it sends the
\* create from r1 and gets the same answer.
CreatesLike(r1, r2, op) ==
    \E st \in Answers(IF r1.op \in AssignmentCreates THEN RemoteCreateAssignment(r1.id)
                      ELSE RemoteCreateEvent(r1.id)) :
        [r2 EXCEPT !.op = op] =
            IF ClientCreate(st) = "entity"
            THEN Respond([r1 EXCEPT !.op = op], 201, <<>>,
                         Entity(IF r1.op \in AssignmentCreates THEN "assignment" ELSE "event",
                                r1.id, r1.walk_id))
            ELSE Upstream([r1 EXCEPT !.op = op], st)

\* C26: POST /walks/{id}/assign and POST /walks/{id}/events behave as POST
\* /assignments and POST /events do for a payload without an id: every step of
\* a helper is a step of its constrained create with the handler's name
\* changed, and the other way round; the check is the one read of the walk, the
\* create the one call, the outcomes 400 for a missing walk and otherwise the
\* created entity.
C26_HelpersAreConstrainedCreates ==
    /\ [][Free /\ req'.op \in CreateOps /\ FreshId(req') =>
            /\ ChecksLike(req', BaseOf(req'.op))
            /\ ChecksLike(req', HelperOf(req'.op))
            /\ issued' = First("get_walk", req'.walk_id)]_vars
    /\ [][req.op \in CreateOps /\ req.pc = "validated" /\ req'.pc = "done" =>
            /\ CreatesLike(req, req', BaseOf(req.op))
            /\ CreatesLike(req, req', HelperOf(req.op))
            /\ issued' = Issue(IF req.op \in AssignmentCreates THEN "create_assignment"
                               ELSE "create_event", req.id)]_vars
    /\ [](req.op \in {"assign_walker_to_walk", "create_walk_event"} /\ Done /\ Contract =>
            IF req.existed THEN req.status = 201 ELSE req.status = 400)

C26_Witness ==
    /\ req.op = "assign_walker_to_walk"
    /\ Done
    /\ ~req.existed
    /\ req.status = 400
    /\ req.detail = <<"fk", "assignment">>
    /\ issued = <<Call("get_walk", req.walk_id)>>

\* ---------------------------------------------------------------- C28
UserOps == {"create_user", "get_user", "update_user", "delete_user"}

\* C28, as claimed: the user service keeps the contract of a remote service.
\* create of an id that is not stored returns 201 with the entity and stores
\* it, and of a stored id 400 with the store unchanged; get returns the stored
\* entity or 404; update the merged entity or 404; delete 204 or 404.
C28_UserServiceContract ==
    /\ [](req.op = "create_user" /\ Done =>
            IF req.stored = <<>>
            THEN /\ req.status = 201
                 /\ req.returned = model_dump(req.payload)
                 /\ req.user_id \in DOMAIN users_db
                 /\ users_db[req.user_id] = req.returned
            ELSE /\ req.status = 400
                 /\ users_db[req.user_id] = req.stored)
    /\ [](req.op = "get_user" /\ Done =>
            IF req.user_id \in DOMAIN users_db
            THEN req.status = 200 /\ req.returned = users_db[req.user_id]
            ELSE req.status = 404)
    /\ [](req.op = "update_user" /\ Done =>
            IF req.stored = <<>> THEN req.status = 404
            ELSE /\ req.status = 200
                 /\ req.returned = users_db[req.user_id])
    /\ [](req.op = "delete_user" /\ Done =>
            /\ req.user_id \notin DOMAIN users_db
            /\ req.status = IF req.stored = <<>> THEN 404 ELSE 204)

\* What the user service does keep: nothing is ever stored, because every
\* create ends in the ValidationError of UserRead, so that get, update and
\* delete answer 404.
C28_NoUserIsEverStored ==
    /\ users_db = NoEntities
    /\ req.op \in UserOps /\ Done =>
          req.status = IF req.op = "create_user" THEN 500 ELSE 404

C28_Witness ==
    /\ req.op = "create_user"
    /\ Done
    /\ req.status = 500
    /\ req.user_id \notin DOMAIN users_db

\* ---------------------------------------------------------------- C27
\* C27: the body a client's update sends holds the fields the caller set, with
\* the values given, and no other; after the service's merge every field that
\* was not set has the value it had before, and every set field the new one.
C27_PartialUpdate ==
    req.op = "update" /\ Done =>
        /\ DOMAIN req.sent = req.payload.set
        /\ \A f \in DOMAIN req.sent : req.sent[f] = req.payload.fields[f]
        /\ DOMAIN req.returned = DOMAIN req.stored
        /\ \A f \in DOMAIN req.stored :
              req.returned[f] = IF f \in req.payload.set THEN req.payload.fields[f]
                                ELSE req.stored[f]

\* Only the city is set, to None; the name and the type, which the update
\* model holds as None as well, stay as they were.
C27_Witness ==
    /\ req.op = "update"
    /\ Done
    /\ req.payload.set = {"city"}
    /\ req.payload.fields["city"] = "None"
    /\ req.stored["name"] = "a"
    /\ req.stored["city"] = "b"
    /\ req.returned["name"] = "a"
    /\ req.returned["city"] = "None"
    /\ DOMAIN req.sent = {"city"}

\* ---------------------------------------------------------------- C29
\* C29: when the get_walk of a create-dependent request is answered with a
\* status that is neither 200 nor 404, the request ends there with that status
\* as an upstream error: no create is sent, the outcome is not the 400
\* constraint violation, the walk does not count as found, and the store is
\* as it was.
C29_CheckFailurePassedThrough ==
    /\ [](req.op \in CreateOps /\ ~Free /\ req.response \notin {200, 404} =>
            /\ Done
            /\ req.status = req.response
            /\ req.status # 400
            /\ req.detail = <<"upstream">>
            /\ req.walk # "found"
            /\ issued = <<Call("get_walk", req.walk_id)>>)
    /\ [][Free /\ req'.op \in CreateOps /\ req'.response \notin {200, 404} =>
            walks' = walks /\ assignments' = assignments /\ events' = events]_vars

\* The walk is stored, and the read of it failed.
C29_Witness ==
    /\ req.op = "create_assignment"
    /\ Done
    /\ req.existed
    /\ req.response \in UnexpectedStatus
    /\ req.status = req.response
    /\ CreateCalls = {}

\* ---------------------------------------------------------------- C30
\* C30: a request to get_walk_complete or cascade-delete that has entered its
\* handler returns to its caller in the end; and when a cascade-delete that
\* listed N dependents has returned from its fan-out, each of the N deletions
\* has been started, once, and has finished, N above the four threads included.
C30_Terminates ==
    /\ (~Free ~> Done)
    /\ [](FannedOut /\ Done =>
            /\ Len(futures) = Len(req.assignments) + Len(req.events)
            /\ AllDone
            /\ \A i \in DOMAIN futures :
                  Issued(CallOf(futures[i]).call, CallOf(futures[i]).id) = 1)

C30_Witness ==
    /\ Cascade
    /\ Done
    /\ req.status = 200
    /\ Len(futures) = 5
    /\ AllDone
    /\ Cardinality(DeleteCalls) = 6

\* ---------------------------------------------------------------- C31
\* The calls of the followed request that delete a dependent.
DependentDeleteCalls ==
    {i \in DOMAIN issued : issued[i].call \in {"delete_assignment", "delete_event"}}

\* C31 as stated: a cascade-delete without force sends no delete of an
\* assignment or an event, whatever other clients do meanwhile.
C31_NoForceNoDependentDelete ==
    Cascade /\ ~req.force => DependentDeleteCalls = {} /\ futures = <<>>

\* C31 amended: a cascade-delete without force whose dependency check found
\* dependents sends no delete at all; one whose check found none sends a delete
\* of a dependent only when another client wrote between its awaits, and then
\* only of dependents its second listing returned.
C31_NoForceDeletesOnlyLateDependents ==
    Cascade /\ ~req.force =>
        /\ req.has_deps => DeleteCalls = {} /\ futures = <<>>
        /\ ~disturbed => DependentDeleteCalls = {} /\ futures = <<>>
        /\ \A i \in DependentDeleteCalls :
              \E k \in DOMAIN futures : issued[i] = CallOf(futures[k])

\* The check found no dependents, an assignment was created before the
\* handler listed them, and the cascade without force has deleted it.
C31_Witness ==
    /\ Cascade
    /\ ~req.force
    /\ ~req.has_deps
    /\ Done
    /\ req.status = 200
    /\ Len(req.assignments) = 1
    /\ Issued("delete_assignment", req.assignments[1]) = 1
    /\ req.deleted_count = 1

\* ---------------------------------------------------------------- C32
\* The step of the cascade that returns the 200 summary.
ReturnsSummary ==
    /\ req.pc = "delete_walk"
    /\ req'.pc = "done"
    /\ req'.status = 200

\* C32 as stated: the cascade returns its 200 summary only if its own delete
\* call for the walk reported the walk deleted, that is, only in a step that
\* takes the walk out of the store.
C32_SummaryOnlyIfOwnDeleteSucceeded ==
    [][ReturnsSummary => req.walk_id \in walks /\ req.walk_id \notin walks']_vars

\* What the handler guarantees: the 200 summary is returned only when the
\* delete call for the walk did not raise, so the walk is gone by then, whoever
\* deleted it.
C32_SummaryOnlyIfWalkGone ==
    [][ReturnsSummary => req.walk_id \notin walks']_vars

\* A cascade answered 200 after another client's delete of the walk.
C32_Witness ==
    /\ Cascade
    /\ Done
    /\ req.status = 200
    /\ disturbed
    /\ req.walk_id \notin walks
    /\ issued[Len(issued)] = [call |-> "delete_walk", id |-> req.walk_id]

\* ---------------------------------------------------------------- C33
\* The step is one of the followed request, not of another client.
OwnStep == req' # req \/ futures' # futures

\* The entities a step takes out of the store.
RemovedWalks == walks \ walks'

RemovedAssignments == DOMAIN assignments \ DOMAIN assignments'

RemovedEvents == DOMAIN events \ DOMAIN events'

\* C33: a cascade-delete of walk W sends delete calls only for W and for the
\* assignments and events its listings filtered by W returned, each of them at
\* most once and, when the fan-out has ended, exactly once; what it lists
\* belongs to W, and its steps remove no other walk and no assignment or event
\* of another walk.
C33_CascadeDeletesOnlyItsOwn ==
    /\ [](Cascade =>
            /\ \A i \in DeleteCalls :
                  CASE issued[i].call = "delete_walk" -> issued[i].id = req.walk_id
                    [] issued[i].call = "delete_assignment" ->
                          \E k \in DOMAIN req.assignments : req.assignments[k] = issued[i].id
                    [] OTHER ->
                          \E k \in DOMAIN req.events : req.events[k] = issued[i].id
            /\ \A k \in DOMAIN req.assignments :
                  /\ Issued("delete_assignment", req.assignments[k]) <= 1
                  /\ Done /\ FannedOut => Issued("delete_assignment", req.assignments[k]) = 1
            /\ \A k \in DOMAIN req.events :
                  /\ Issued("delete_event", req.events[k]) <= 1
                  /\ Done /\ FannedOut => Issued("delete_event", req.events[k]) = 1)
    /\ [][Cascade /\ OwnStep =>
            /\ RemovedWalks \subseteq {req.walk_id}
            /\ \A a \in RemovedAssignments : assignments[a] = req.walk_id
            /\ \A e \in RemovedEvents : events[e] = req.walk_id
            /\ req.pc = "list_assignments" /\ req'.pc = "list_events" =>
                  \A k \in DOMAIN req'.assignments :
                      assignments[req'.assignments[k]] = req.walk_id
            /\ req.pc = "list_events" /\ req'.pc = "fanout" =>
                  \A k \in DOMAIN req'.events : events[req'.events[k]] = req.walk_id]_vars

\* The cascade of walk 1 has deleted the walk and its assignment with one call
\* each, and the event of walk 2 is still stored.
C33_Witness ==
    /\ Cascade
    /\ Done
    /\ req.status = 200
    /\ req.walk_id = 1
    /\ req.assignments = <<1>>
    /\ Issued("delete_assignment", 1) = 1
    /\ Issued("delete_walk", 1) = 1
    /\ Issued("delete_event", 1) = 0
    /\ walks = {2}
    /\ assignments = NoEntities
    /\ 1 \in DOMAIN events
    /\ events[1] = 2

\* ---------------------------------------------------------------- C34
\* get_user_complete has returned or raised.
UserCompleteDone == req.op = "get_user_complete" /\ Done

ReturnedNone == req.status = 0 /\ req.detail = <<"return", "None">>

ReturnedDict == req.status = 0 /\ req.detail = <<"return", "dict">>

\* C34 as stated: when get_user finds no user, get_user_complete returns None
\* whatever the dogs and reviews workers did, an upstream error of theirs
\* included; a dict is returned only for a user that exists with all three
\* workers successful.
C34_AbsentWhateverWorkersDo ==
    UserCompleteDone =>
        /\ futures[1].result = "none" => ReturnedNone
        /\ ReturnedDict => req.existed /\ Raised = {}

\* C34 amended: a failure of any worker goes before the None check: the first
\* upstream error in the order user, dogs, reviews is raised, also for a user
\* that does not exist. With no worker failed, None is returned exactly when
\* the user does not exist (the 404 of the dogs listing counts as an empty list,
\* not as a failure), and otherwise the dict with the worker results.
C34_WorkerFailureBeforeAbsent ==
    UserCompleteDone =>
        /\ AllDone
        /\ Raised # {} =>
              /\ req.status = futures[FirstRaised].status
              /\ req.detail = <<"upstream">>
        /\ Raised = {} /\ ~req.existed => ReturnedNone
        /\ Raised = {} /\ req.existed =>
              /\ ReturnedDict
              /\ req.body.dogs = futures[2].value
              /\ req.body.as_owner = futures[3].first
              /\ req.body.as_walker = futures[3].value
        /\ ReturnedNone => ~req.existed
        /\ ReturnedDict => req.existed /\ Raised = {}

\* The user does not exist, the first listing of reviews failed upstream, and
\* that error, not None, is what the caller gets.
C34_Witness ==
    /\ UserCompleteDone
    /\ ~req.existed
    /\ futures[1].result = "none"
    /\ futures[2].result = "entities"
    /\ futures[2].status = 404
    /\ futures[3].result = "raise"
    /\ req.status = futures[3].status
    /\ req.detail = <<"upstream">>

\* ---------------------------------------------------------------- C35
\* C35 as stated: whenever the client is not open, before startup or after the
\* teardown has closed it, a request has failed with 503 and has sent nothing.
C35_ClosedClientIs503 ==
    atomic_client # "client" /\ ~Free =>
        /\ Done
        /\ req.status = 503
        /\ issued = <<>>

\* C35 amended: the handle goes from None to the open client and from the open
\* client to the closed one, and is never cleared. 503 is raised only while it
\* is None; once the client is closed get_client returns it, and the request
\* fails with 500 at its first call, which reaches no service.
C35_ClosedClientIsHandedOut ==
    /\ [](atomic_client = "closed" /\ ~Free =>
            /\ Done
            /\ req.op \in Endpoints
            /\ req.status = 500
            /\ req.detail = <<"client has been closed">>
            /\ issued = <<>>
            /\ futures = <<>>)
    /\ [][/\ atomic_client' # atomic_client =>
                <<atomic_client, atomic_client'>> \in
                    {<<"None", "client">>, <<"client", "closed">>}
          /\ req'.status = 503 /\ req.status # 503 => atomic_client = "None"]_vars

\* After the teardown a cascade-delete was handed the closed client.
C35_Witness ==
    /\ atomic_client = "closed"
    /\ Done
    /\ req.op = "delete_walk_cascade"
    /\ req.status = 500
    /\ issued = <<>>

\* ---------------------------------------------------------------- C36
\* C36: no step changes the walk_id of an assignment that stays in the store,
\* and what PATCH /assignments/{id} sends to the service holds no key but
\* start_time, end_time, status and notes, whatever the caller put in the body.
C36_WalkIdNeverUpdated ==
    /\ [](req.op = "update_assignment" => DOMAIN req.sent \subseteq AssignmentUpdateFields)
    /\ [][\A a \in DOMAIN assignments \cap DOMAIN assignments' :
            assignments'[a] = assignments[a]]_vars

\* The caller put another walk_id and a status in the body; the status was sent
\* and the assignment still references its walk.
C36_Witness ==
    /\ req.op = "update_assignment"
    /\ Done
    /\ req.status = 200
    /\ "walk_id" \in DOMAIN req.payload
    /\ req.id \in DOMAIN assignments
    /\ req.payload["walk_id"] # assignments[req.id]
    /\ DOMAIN req.sent = {"status"}

\* ---------------------------------------------------------------- C37
\* C37: validate_review_foreign_keys given a walk id that is not a well-formed
\* UUID has raised the 400 "Invalid walk ID format" and has made no call, to
\* the walk service or to the user service; nothing is left for it to do.
C37_MalformedWalkIdRejectedUnsent ==
    req.op = "validate_review_foreign_keys" /\ ~req.wellformed =>
        /\ Done
        /\ req.status = 400
        /\ req.detail = <<"invalid_walk_id">>
        /\ issued = <<>>
        /\ futures = <<>>
        /\ ~ENABLED validate_review_owner
        /\ ~ENABLED validate_review_walker

\* A malformed walk id with an owner and a walker that exist.
C37_Witness ==
    /\ req.op = "validate_review_foreign_keys"
    /\ ~req.wellformed
    /\ Done
    /\ req.status = 400
    /\ UserStored(req.owner_id)
    /\ UserStored(req.walker_id)
    /\ issued = <<>>

\* ---------------------------------------------------------------- C38
\* The id has the zero-padded form: the prefix and then digits only.
PaddedForm(s) == s # <<>> /\ Head(s) = "P" /\ isdigit(Tail(s))

\* t is d without its leading zeros (one zero is kept when d is all zeros).
WithoutLeadingZeros(d, t) ==
    \E k \in 0..(Len(d) - 1) :
        /\ t = SubSeq(d, k + 1, Len(d))
        /\ \A i \in 1..k : d[i] = "0"
        /\ Len(t) = 1 \/ t[1] # "0"

\* The id is one of the zero-padded form followed by one newline.
PaddedFormAndNewline(s) ==
    s # <<>> /\ s[Len(s)] = "LF" /\ PaddedForm(SubSeq(s, 1, Len(s) - 1))

ExtractDone == req.op = "extract_numeric_id" /\ Done

\* C38 as stated: an id of the zero-padded form gives its digits without the
\* leading zeros, every other id is returned unchanged, and applying the
\* function to its result changes nothing.
C38_PaddedStrippedOthersUnchanged ==
    ExtractDone =>
        /\ PaddedForm(req.payload) => WithoutLeadingZeros(Tail(req.payload), req.returned)
        /\ ~PaddedForm(req.payload) => req.returned = req.payload
        /\ req.stored = req.returned

\* What the function does: an id of the zero-padded form, also when one
\* newline follows it, gives its digits without the leading zeros; every other
\* id is returned unchanged; the function is idempotent.
C38_PaddedOrNewlinedStripped ==
    ExtractDone =>
        /\ PaddedForm(req.payload) => WithoutLeadingZeros(Tail(req.payload), req.returned)
        /\ PaddedFormAndNewline(req.payload) =>
              WithoutLeadingZeros(SubSeq(req.payload, 2, Len(req.payload) - 1), req.returned)
        /\ ~PaddedForm(req.payload) /\ ~PaddedFormAndNewline(req.payload) =>
              req.returned = req.payload
        /\ req.stored = req.returned

\* The padded id of 09 followed by a newline has given 9.
C38_Witness ==
    /\ ExtractDone
    /\ req.payload = <<"P", "0", "9", "LF">>
    /\ req.returned = <<"9">>
    /\ req.stored = <<"9">>
====
